---- MODULE Spec2Model ----
(***************************************************************************)
(* Replike (RepDetect): the rep-counting engine of PoseRepCounter.         *)
(*                                                                         *)
(* A pose frame is modelled by the quantities the classifiers read from    *)
(* the smoothed landmarks, as scaled integers:                             *)
(*   visUpper / visLower  landmark visibility, hundredths (0.5 -> 50)      *)
(*   lKnee / rKnee        knee angles, degrees                             *)
(*   ratio                ankle width / shoulder width, hundredths         *)
(*   armsLift             nose.y - avg wrist y, thousandths                *)
(*   lLift / rLift        hipY - knee.y, thousandths                       *)
(*   shoulderY / hipY     normalised y, hundredths                         *)
(* Times are integer milliseconds (performance.now()).                     *)
(***************************************************************************)
EXTENDS Integers, Sequences, FiniteSets, TLC

VARIABLES
    exercise,         \* useState exercise
    sessionRunning,   \* useState sessionRunning
    calibration,      \* useState calibration
    repState,         \* useState repState
    autoCalib,        \* useState autoCalib
    manualCalibOpen,  \* useState manualCalibOpen
    manualCalibStep,  \* useState manualCalibStep
    events,           \* useState events (newest first)
    lastLandmarks,    \* lastLandmarksRef.current / smoothedRef.current
    now,              \* performance.now() of the last processed frame
    lastOp,           \* the handler that ran last
    script,           \* scripted-session kind ("none" in the free model)
    frameLog,         \* the frames fed by a scripted session, oldest first
    userOps,          \* number of user actions taken so far
    quality,          \* qualityAggRef.current (session-tracking version)
    lastRep,          \* the rep classifyRep judged last: its inputs and its label
    session,          \* sessionRef.current and lastCountedRepTsRef.current
    twin,             \* state of a second run of the session, fed in step with it
    planState,        \* useState planState
    planNowMs,        \* useState planNowMs: Date.now() at the last plan tick
    stepReps,         \* reps counted in the latest work step while it was active
    history,          \* the sessions appendSession has stored, newest first
    barLine,          \* useState barLine (bar-reference version of PoseRepCounter)
    barDraft,         \* useState barDraft
    barAuto,          \* useState barAuto
    barAutoSamples,   \* barAutoSamplesRef.current
    loop,             \* the state values the running render() closure captured
    lastClick,        \* the point of the last click on the video
    trackingHealth,   \* useState trackingHealth (session-tracking version)
    lastVideoTime,    \* lastVideoTime of the render loop
    lastFrameMs,      \* lastFrameMsRef.current
    smoothedRef       \* smoothedRef.current, as landmark coordinates

\* The guided-plan state.
planVars == << planState, planNowMs, stepReps, history >>

\* The bar-reference state.
barVars == << barLine, barDraft, barAuto, barAutoSamples, loop, lastClick >>

\* The front of the render loop: frame clock, smoothing, tracking health.
pumpVars == << trackingHealth, lastVideoTime, lastFrameMs, smoothedRef >>

\* The state of the subsystems around the rep-counting engine.
extVars == << quality, lastRep, session, twin, planVars, barVars, pumpVars >>

vars == << exercise, sessionRunning, calibration, repState, autoCalib,
           manualCalibOpen, manualCalibStep, events, lastLandmarks,
           now, lastOp, script, frameLog, userOps, extVars >>

----------------------------------------------------------------------------
(* Bounds *)

MaxNow == 1500

MaxUserOps == 2

FrameGaps == {150, 450}

----------------------------------------------------------------------------
(* Types *)

ExerciseId == {"jumping_jacks", "squats", "lunges", "high_knees", "jump_squats", "burpees"}

Min(a, b) == IF a < b THEN a ELSE b

Max(a, b) == IF a > b THEN a ELSE b

Abs(a) == IF a < 0 THEN 0 - a ELSE a

\* (clamp01(num / Math.max(den, 1e-6)) * 100).toFixed(0)
PctFixed0(num, den) ==
    IF num <= 0 THEN 0
    ELSE IF den <= 0 THEN 100
    ELSE IF num >= den THEN 100
    ELSE (200 * num + den) \div (2 * den)

isLandmarkConfident(vis, minVis) == vis >= minVis

NoLandmarks ==
    [present |-> FALSE, visUpper |-> 0, visLower |-> 0, lKnee |-> 0, rKnee |-> 0,
     ratio |-> 0, armsLift |-> 0, lLift |-> 0, rLift |-> 0, shoulderY |-> 0, hipY |-> 0]

Landmarks(vu, vl, lk, rk, ra, al, ll, rl, sy, hy) ==
    [present |-> TRUE, visUpper |-> vu, visLower |-> vl, lKnee |-> lk, rKnee |-> rk,
     ratio |-> ra, armsLift |-> al, lLift |-> ll, rLift |-> rl, shoulderY |-> sy, hipY |-> hy]

NoFeedback == [kind |-> "", pct |-> 0, pct2 |-> 0, side |-> "none"]

Feedback(k, p, q, s) == [kind |-> k, pct |-> p, pct2 |-> q, side |-> s]

InitialRepState(ex) ==
    [exercise |-> ex, repCount |-> 0, phase |-> "unknown", lastPhaseChangeMs |-> 0,
     lastRepMs |-> 0, reachedTarget |-> FALSE, lastSide |-> "none",
     feedback |-> NoFeedback, decisionId |-> 0, decisionKind |-> "none",
     decisionMessage |-> ""]

\* A calibration entry; has = FALSE models an undefined entry.
NoJumpingJackCalibration ==
    [has |-> FALSE, openAnkleRatio |-> 0, closedAnkleRatio |-> 0, openArmsLift |-> 0, closedArmsLift |-> 0]

NoKneeCalibration == [has |-> FALSE, topKneeAngle |-> 0, bottomKneeAngle |-> 0]

NoHighKneesCalibration == [has |-> FALSE, upLift |-> 0, downLift |-> 0]

EmptyCalibration ==
    [jumping_jacks |-> NoJumpingJackCalibration, squats |-> NoKneeCalibration,
     lunges |-> NoKneeCalibration, high_knees |-> NoHighKneesCalibration,
     jump_squats |-> NoKneeCalibration]

----------------------------------------------------------------------------
(* Classifiers *)

\* CountOrReject without the inter-rep interval test.
CountOrRejectNoInterval(prev, edge, reachedTarget, nowMs, minRepMs, tooFastMsg, rangeMsg) ==
    IF edge
    THEN IF reachedTarget
         THEN [repCount |-> prev.repCount + 1, lastRepMs |-> nowMs, reachedTarget |-> FALSE,
               decisionId |-> prev.decisionId + 1, decisionKind |-> "rep",
               decisionMessage |-> "Rep counted."]
         ELSE [repCount |-> prev.repCount, lastRepMs |-> prev.lastRepMs,
               reachedTarget |-> reachedTarget,
               decisionId |-> prev.decisionId + 1, decisionKind |-> "reject",
               decisionMessage |-> rangeMsg]
    ELSE [repCount |-> prev.repCount, lastRepMs |-> prev.lastRepMs,
          reachedTarget |-> reachedTarget,
          decisionId |-> prev.decisionId, decisionKind |-> "none", decisionMessage |-> ""]

\* CountOrReject with the interval measured from the last phase change.
CountOrRejectSincePhase(prev, edge, reachedTarget, nowMs, minRepMs, tooFastMsg, rangeMsg) ==
    IF edge
    THEN IF reachedTarget /\ nowMs - prev.lastPhaseChangeMs > minRepMs
         THEN [repCount |-> prev.repCount + 1, lastRepMs |-> nowMs, reachedTarget |-> FALSE,
               decisionId |-> prev.decisionId + 1, decisionKind |-> "rep",
               decisionMessage |-> "Rep counted."]
         ELSE [repCount |-> prev.repCount, lastRepMs |-> prev.lastRepMs,
               reachedTarget |-> reachedTarget,
               decisionId |-> prev.decisionId + 1, decisionKind |-> "reject",
               decisionMessage |-> IF reachedTarget THEN tooFastMsg ELSE rangeMsg]
    ELSE [repCount |-> prev.repCount, lastRepMs |-> prev.lastRepMs,
          reachedTarget |-> reachedTarget,
          decisionId |-> prev.decisionId, decisionKind |-> "none", decisionMessage |-> ""]

\* The counting-edge block shared by the phase classifiers: rep, reject or nothing.
CountOrReject(prev, edge, reachedTarget, nowMs, minRepMs, tooFastMsg, rangeMsg) ==
    IF edge
    THEN IF reachedTarget /\ nowMs - prev.lastRepMs > minRepMs
         THEN [repCount |-> prev.repCount + 1, lastRepMs |-> nowMs, reachedTarget |-> FALSE,
               decisionId |-> prev.decisionId + 1, decisionKind |-> "rep",
               decisionMessage |-> "Rep counted."]
         ELSE [repCount |-> prev.repCount, lastRepMs |-> prev.lastRepMs,
               reachedTarget |-> reachedTarget,
               decisionId |-> prev.decisionId + 1, decisionKind |-> "reject",
               decisionMessage |-> IF reachedTarget THEN tooFastMsg ELSE rangeMsg]
    ELSE [repCount |-> prev.repCount, lastRepMs |-> prev.lastRepMs,
          reachedTarget |-> reachedTarget,
          decisionId |-> prev.decisionId, decisionKind |-> "none", decisionMessage |-> ""]

\* hingePhase classifying a first frame as down unless it is up.
hingePhaseDownUnlessUp(prevPhase, isDown, isUp, canSwitch) ==
    IF prevPhase = "unknown" THEN (IF isUp THEN "up" ELSE "down")
    ELSE IF canSwitch
         THEN IF prevPhase = "down" /\ isUp THEN "up"
              ELSE IF prevPhase = "up" /\ isDown THEN "down"
              ELSE prevPhase
         ELSE prevPhase

\* hingePhase without the debounce.
hingePhaseNoDebounce(prevPhase, isDown, isUp, canSwitch) ==
    IF prevPhase = "unknown" THEN (IF isDown THEN "down" ELSE "up")
    ELSE IF prevPhase = "down" /\ isUp THEN "up"
    ELSE IF prevPhase = "up" /\ isDown THEN "down"
    ELSE prevPhase

\* The phase step of the knee-angle classifiers (squats, lunges, jump squats).
hingePhase(prevPhase, isDown, isUp, canSwitch) ==
    IF prevPhase = "unknown" THEN (IF isDown THEN "down" ELSE "up")
    ELSE IF canSwitch
         THEN IF prevPhase = "down" /\ isUp THEN "up"
              ELSE IF prevPhase = "up" /\ isDown THEN "down"
              ELSE prevPhase
         ELSE prevPhase

\* countingEdge taken on any entry into the outer phase.
countingEdgeFromAny(prevPhase, nextPhase, inner, outer) == prevPhase # outer /\ nextPhase = outer

\* The counting-edge test: prev.phase === inner && nextPhase === outer.
countingEdge(prevPhase, nextPhase, inner, outer) == prevPhase = inner /\ nextPhase = outer

\* The early return of a classifier whose landmarks fail its confidence gate.
lostVisibilityKeepsNothing(prev) == [prev EXCEPT !.phase = "unknown", !.reachedTarget = FALSE]

lostVisibility(prev) == [prev EXCEPT !.phase = "unknown"]

\* The return statement shared by the phase classifiers.
NextRepState(prev, nextPhase, nowMs, d, feedback) ==
    [prev EXCEPT !.repCount = d.repCount,
                 !.phase = nextPhase,
                 !.lastPhaseChangeMs = IF nextPhase # prev.phase THEN nowMs ELSE prev.lastPhaseChangeMs,
                 !.lastRepMs = d.lastRepMs,
                 !.reachedTarget = d.reachedTarget,
                 !.feedback = feedback,
                 !.decisionId = d.decisionId,
                 !.decisionKind = d.decisionKind,
                 !.decisionMessage = d.decisionMessage]

\* squatThresholds with the offsets of the default thresholds (5, 25, 10, 20).
squatThresholdsDefaultOffsets(calib) ==
    LET top == IF calib.has THEN calib.topKneeAngle ELSE 175
        bottom == IF calib.has THEN calib.bottomKneeAngle ELSE 110
    IN  [top |-> top, bottom |-> bottom,
         downEnter |-> bottom + 5, downExit |-> bottom + 25,
         upEnter |-> top - 10, upExit |-> top - 20]

\* The thresholds of updateSquatState, default or from the calibration profile.
squatThresholds(calib) ==
    LET top == IF calib.has THEN calib.topKneeAngle ELSE 175
        bottom == IF calib.has THEN calib.bottomKneeAngle ELSE 110
    IN  [top |-> top, bottom |-> bottom,
         downEnter |-> IF calib.has THEN bottom + 10 ELSE 115,
         downExit |-> IF calib.has THEN bottom + 25 ELSE 135,
         upEnter |-> IF calib.has THEN top - 8 ELSE 165,
         upExit |-> IF calib.has THEN top - 18 ELSE 155]

\* isDown and isUp of the knee-angle classifiers for a knee angle of num / den degrees.
hingeIsDown(prevPhase, num, den, th) ==
    IF prevPhase = "down" THEN num < th.downExit * den ELSE num < th.downEnter * den

hingeIsUp(prevPhase, num, den, th) ==
    IF prevPhase = "up" THEN num > th.upExit * den ELSE num > th.upEnter * den

updateSquatState(prev, lm, nowMs, calib) ==
    LET minVisible == isLandmarkConfident(lm.visLower, 40)
        kneeAngle == Min(lm.lKnee, lm.rKnee)
        th == squatThresholds(calib)
        top == th.top
        bottom == th.bottom
        downEnter == th.downEnter
        minRepMs == 700
        isDown == hingeIsDown(prev.phase, kneeAngle, 1, th)
        isUp == hingeIsUp(prev.phase, kneeAngle, 1, th)
        minPhaseMs == 220
        canSwitch == nowMs - prev.lastPhaseChangeMs > minPhaseMs
        nextPhase == hingePhase(prev.phase, isDown, isUp, canSwitch)
        reachedTarget == IF nextPhase = "down" THEN TRUE ELSE prev.reachedTarget
        depthPct == PctFixed0(top - kneeAngle, top - bottom)
        feedback ==
            IF kneeAngle < downEnter THEN Feedback("Depth (bottom). Drive up.", depthPct, 0, "none")
            ELSE IF (top - kneeAngle) * 100 > 45 * Max(top - bottom, 0) /\ top - kneeAngle > 0
                 THEN Feedback("Depth (go lower).", depthPct, 0, "none")
                 ELSE Feedback("Depth (start).", depthPct, 0, "none")
        d == CountOrReject(prev, countingEdge(prev.phase, nextPhase, "down", "up"), reachedTarget, nowMs,
                           minRepMs, "Too fast. Slow down.", "Not deep enough.")
    IN  IF ~minVisible
        THEN lostVisibility(prev)
        ELSE NextRepState(prev, nextPhase, nowMs, d, feedback)

updateJumpSquatState(prev, lm, nowMs, calib) ==
    LET minVisible == isLandmarkConfident(lm.visLower, 40)
        kneeAngle == Min(lm.lKnee, lm.rKnee)
        top == IF calib.has THEN calib.topKneeAngle ELSE 175
        bottom == IF calib.has THEN calib.bottomKneeAngle ELSE 110
        downEnter == IF calib.has THEN bottom + 12 ELSE 118
        downExit == IF calib.has THEN bottom + 28 ELSE 140
        upEnter == IF calib.has THEN top - 10 ELSE 165
        upExit == IF calib.has THEN top - 20 ELSE 155
        minRepMs == 520
        isDown == IF prev.phase = "down" THEN kneeAngle < downExit ELSE kneeAngle < downEnter
        isUp == IF prev.phase = "up" THEN kneeAngle > upExit ELSE kneeAngle > upEnter
        minPhaseMs == 200
        canSwitch == nowMs - prev.lastPhaseChangeMs > minPhaseMs
        nextPhase == hingePhase(prev.phase, isDown, isUp, canSwitch)
        reachedTarget == IF nextPhase = "down" THEN TRUE ELSE prev.reachedTarget
        depthPct == PctFixed0(top - kneeAngle, top - bottom)
        feedback ==
            IF kneeAngle < downEnter THEN Feedback("Depth (explode up).", depthPct, 0, "none")
            ELSE IF (top - kneeAngle) * 100 > 45 * Max(top - bottom, 0) /\ top - kneeAngle > 0
                 THEN Feedback("Depth (go lower).", depthPct, 0, "none")
                 ELSE Feedback("Depth (start).", depthPct, 0, "none")
        d == CountOrReject(prev, countingEdge(prev.phase, nextPhase, "down", "up"), reachedTarget, nowMs,
                           minRepMs, "Too fast. Control the landing.", "Not deep enough.")
    IN  IF ~minVisible
        THEN lostVisibility(prev)
        ELSE NextRepState(prev, nextPhase, nowMs, d, feedback)

\* The counting-edge block of updateLungeState: it counts, and sets no decision.
LungeCount(prev, edge, reachedTarget, nowMs, minRepMs) ==
    IF edge /\ reachedTarget /\ nowMs - prev.lastRepMs > minRepMs
    THEN [repCount |-> prev.repCount + 1, lastRepMs |-> nowMs, reachedTarget |-> FALSE,
          decisionId |-> prev.decisionId, decisionKind |-> "none", decisionMessage |-> ""]
    ELSE [repCount |-> prev.repCount, lastRepMs |-> prev.lastRepMs,
          reachedTarget |-> reachedTarget,
          decisionId |-> prev.decisionId, decisionKind |-> "none", decisionMessage |-> ""]

updateLungeState(prev, lm, nowMs, calib) ==
    LET minVisible == isLandmarkConfident(lm.visLower, 40)
        activeSide == IF lm.lKnee < lm.rKnee THEN "left" ELSE "right"
        activeAngle == Min(lm.lKnee, lm.rKnee)
        top == IF calib.has THEN calib.topKneeAngle ELSE 175
        bottom == IF calib.has THEN calib.bottomKneeAngle ELSE 115
        downEnter == IF calib.has THEN bottom + 10 ELSE 120
        downExit == IF calib.has THEN bottom + 25 ELSE 140
        upEnter == IF calib.has THEN top - 8 ELSE 170
        upExit == IF calib.has THEN top - 18 ELSE 160
        minPhaseMs == 220
        minRepMs == 750
        canSwitch == nowMs - prev.lastPhaseChangeMs > minPhaseMs
        isDown == IF prev.phase = "down" THEN activeAngle < downExit ELSE activeAngle < downEnter
        isUp == IF prev.phase = "up" THEN activeAngle > upExit ELSE activeAngle > upEnter
        nextPhase == hingePhase(prev.phase, isDown, isUp, canSwitch)
        depthPct == PctFixed0(top - activeAngle, top - bottom)
        feedback ==
            IF activeAngle < downEnter THEN Feedback("Lunge depth. Push up.", depthPct, 0, activeSide)
            ELSE IF (top - activeAngle) * 100 > 45 * Max(top - bottom, 0) /\ top - activeAngle > 0
                 THEN Feedback("Lunge depth. Go lower.", depthPct, 0, activeSide)
                 ELSE Feedback("Lunge depth.", depthPct, 0, activeSide)
        reachedTarget == IF nextPhase = "down" THEN TRUE ELSE prev.reachedTarget
        lastSide == IF nextPhase = "down" THEN activeSide ELSE prev.lastSide
        d == LungeCount(prev, countingEdge(prev.phase, nextPhase, "down", "up"), reachedTarget, nowMs, minRepMs)
    IN  IF ~minVisible
        THEN [lostVisibility(prev) EXCEPT
                          !.feedback = Feedback("Step back so hips/knees/ankles are visible.", 0, 0, "none")]
        ELSE [NextRepState(prev, nextPhase, nowMs, d, feedback) EXCEPT !.lastSide = lastSide]

updateJumpingJackState(prev, lm, nowMs, calib) ==
    LET minVisible == /\ isLandmarkConfident(lm.visUpper, 50)
                      /\ isLandmarkConfident(lm.visUpper, 40)
                      /\ isLandmarkConfident(lm.visLower, 40)
        ankleToShoulderRatio == lm.ratio
        armsLift == lm.armsLift
        defaultArmsUp == armsLift > 30
        openEnter == IF calib.has THEN calib.openAnkleRatio ELSE 145
        openExit == IF calib.has
                    THEN Min(calib.openAnkleRatio, Max(calib.closedAnkleRatio, 110))
                    ELSE 125
        legsOpen == IF prev.phase = "open"
                    THEN ankleToShoulderRatio > openExit
                    ELSE ankleToShoulderRatio > openEnter
        armsUp == IF calib.has
                  THEN IF prev.phase = "open"
                       THEN armsLift * 100 > calib.openArmsLift * 70
                       ELSE armsLift * 100 > calib.openArmsLift * 85
                  ELSE defaultArmsUp
        open == armsUp /\ legsOpen
        closed == ~open
        minPhaseMs == 180
        canSwitch == nowMs - prev.lastPhaseChangeMs > minPhaseMs
        minRepMs == 500
        nextPhase ==
            IF prev.phase = "unknown" THEN (IF open THEN "open" ELSE "closed")
            ELSE IF canSwitch
                 THEN IF prev.phase = "open" /\ closed THEN "closed"
                      ELSE IF prev.phase = "closed" /\ open THEN "open"
                      ELSE prev.phase
                 ELSE prev.phase
        reachedTarget == IF nextPhase = "open" THEN TRUE ELSE prev.reachedTarget
        openness == IF calib.has
                    THEN PctFixed0(ankleToShoulderRatio - calib.closedAnkleRatio,
                                   calib.openAnkleRatio - calib.closedAnkleRatio)
                    ELSE PctFixed0(ankleToShoulderRatio - 115, 50)
        liftPct == IF calib.has
                   THEN PctFixed0(armsLift - calib.closedArmsLift,
                                  calib.openArmsLift - calib.closedArmsLift)
                   ELSE PctFixed0(armsLift - 20, 80)
        feedback == IF open THEN Feedback("Open: legs, arms.", openness, liftPct, "none")
                    ELSE Feedback("Aim for: legs, arms.", openness, liftPct, "none")
        d == CountOrReject(prev, countingEdge(prev.phase, nextPhase, "open", "closed"), reachedTarget, nowMs,
                           minRepMs, "Too fast. Slow down.", "Didn't reach full open position.")
    IN  IF ~minVisible
        THEN lostVisibility(prev)
        ELSE NextRepState(prev, nextPhase, nowMs, d, feedback)

\* updateJumpingJackState of the session-tracking version of the component: lower
\* confidence gate, wider open thresholds, minRepMs 400. Ratios are compared in
\* 1/10000 of a hundredth.
updateJumpingJackStateTracked(prev, lm, nowMs, calib) ==
    LET minVisible == /\ isLandmarkConfident(lm.visUpper, 35)
                      /\ isLandmarkConfident(lm.visUpper, 25)
                      /\ isLandmarkConfident(lm.visLower, 25)
        ankleToShoulderRatio == lm.ratio
        armsLift == lm.armsLift
        defaultArmsUp == armsLift > 20
        openEnter == IF calib.has THEN calib.openAnkleRatio * 9600 ELSE 135 * 10000
        openExit == IF calib.has
                    THEN Min((openEnter * 88) \div 100,
                             Max(calib.closedAnkleRatio * 10400, 112 * 10000))
                    ELSE 118 * 10000
        legsOpen == IF prev.phase = "open"
                    THEN ankleToShoulderRatio * 10000 > openExit
                    ELSE ankleToShoulderRatio * 10000 > openEnter
        armsUp == IF calib.has
                  THEN IF prev.phase = "open"
                       THEN armsLift * 100 > calib.openArmsLift * 60
                       ELSE armsLift * 100 > calib.openArmsLift * 75
                  ELSE defaultArmsUp
        open == armsUp /\ legsOpen
        closed == ~open
        minPhaseMs == 180
        canSwitch == nowMs - prev.lastPhaseChangeMs > minPhaseMs
        minRepMs == 400
        nextPhase ==
            IF prev.phase = "unknown" THEN (IF open THEN "open" ELSE "closed")
            ELSE IF canSwitch
                 THEN IF prev.phase = "open" /\ closed THEN "closed"
                      ELSE IF prev.phase = "closed" /\ open THEN "open"
                      ELSE prev.phase
                 ELSE prev.phase
        reachedTarget == IF nextPhase = "open" THEN TRUE ELSE prev.reachedTarget
        openness == IF calib.has
                    THEN PctFixed0(ankleToShoulderRatio - calib.closedAnkleRatio,
                                   calib.openAnkleRatio - calib.closedAnkleRatio)
                    ELSE PctFixed0(ankleToShoulderRatio - 115, 50)
        liftPct == IF calib.has
                   THEN PctFixed0(armsLift - calib.closedArmsLift,
                                  calib.openArmsLift - calib.closedArmsLift)
                   ELSE PctFixed0(armsLift - 20, 80)
        feedback == IF open THEN Feedback("Open: legs, arms.", openness, liftPct, "none")
                    ELSE Feedback("Aim for: legs, arms.", openness, liftPct, "none")
        d == CountOrReject(prev, countingEdge(prev.phase, nextPhase, "open", "closed"), reachedTarget, nowMs,
                           minRepMs, "Too fast. Slow down.", "Didn't reach full open position.")
    IN  IF ~minVisible
        THEN lostVisibility(prev)
        ELSE NextRepState(prev, nextPhase, nowMs, d, feedback)

\* standLike, crouchLike and plankLike of updateBurpeeState.
standLike(lm) == Min(lm.lKnee, lm.rKnee) > 165 /\ lm.hipY < 58

crouchLike(lm) == Min(lm.lKnee, lm.rKnee) < 145 \/ lm.hipY > 62

plankLike(lm) == lm.shoulderY > 52 /\ lm.hipY > 56 /\ Abs(lm.hipY - lm.shoulderY) < 16

\* The phase selection of updateBurpeeState with the plank tested first out of
\* unknown too.
burpeePhasePlankFirst(prevPhase, lm, canSwitch) ==
    IF prevPhase = "unknown" \/ canSwitch
    THEN IF plankLike(lm) THEN "open"
         ELSE IF crouchLike(lm) THEN "down"
         ELSE IF standLike(lm) THEN "up"
         ELSE IF prevPhase = "unknown" THEN "down" ELSE prevPhase
    ELSE prevPhase

\* The phase selection of updateBurpeeState.
burpeePhase(prevPhase, lm, canSwitch) ==
    IF prevPhase = "unknown"
    THEN (IF standLike(lm) THEN "up" ELSE IF plankLike(lm) THEN "open" ELSE "down")
    ELSE IF canSwitch
         THEN IF plankLike(lm) THEN "open"
              ELSE IF crouchLike(lm) THEN "down"
              ELSE IF standLike(lm) THEN "up"
              ELSE prevPhase
         ELSE prevPhase

updateBurpeeState(prev, lm, nowMs) ==
    LET minVisible == /\ isLandmarkConfident(lm.visUpper, 35)
                      /\ isLandmarkConfident(lm.visLower, 35)
        minPhaseMs == 220
        canSwitch == nowMs - prev.lastPhaseChangeMs > minPhaseMs
        minRepMs == 950
        nextPhase == burpeePhase(prev.phase, lm, canSwitch)
        reachedTarget == IF nextPhase = "open" THEN TRUE ELSE prev.reachedTarget
        feedback ==
            IF nextPhase = "up" THEN Feedback("Stand tall, then drop down.", 0, 0, "none")
            ELSE IF nextPhase = "down" THEN Feedback("Hands down, kick back to plank.", 0, 0, "none")
            ELSE IF nextPhase = "open" THEN Feedback("Plank. Drive feet in, then stand.", 0, 0, "none")
            ELSE prev.feedback
        d == CountOrReject(prev, countingEdge(prev.phase, nextPhase, "open", "up"), reachedTarget, nowMs,
                           minRepMs, "Too fast. Control the rep.", "Hit a solid plank position.")
    IN  IF ~minVisible
        THEN [lostVisibility(prev) EXCEPT
                          !.feedback = Feedback("Keep your full body in frame.", 0, 0, "none")]
        ELSE NextRepState(prev, nextPhase, nowMs, d, feedback)

\* sideUp of updateHighKneesState: the one knee above the lift threshold
\* (upLift + downLift) / 2, or 0.05 without calibration.
highKneesSideUp(lm, calib) ==
    LET leftUp == IF calib.has THEN 2 * lm.lLift > calib.upLift + calib.downLift ELSE lm.lLift > 50
        rightUp == IF calib.has THEN 2 * lm.rLift > calib.upLift + calib.downLift ELSE lm.rLift > 50
    IN  IF leftUp /\ ~rightUp THEN "left"
        ELSE IF rightUp /\ ~leftUp THEN "right" ELSE "none"

\* alternated, without the comparison of sides.
highKneesAlternatedAnySide(lastSide, sideUp) == TRUE

\* alternated of updateHighKneesState.
highKneesAlternated(lastSide, sideUp) == lastSide = "none" \/ lastSide # sideUp

updateHighKneesState(prev, lm, nowMs, calib) ==
    LET minVisible == isLandmarkConfident(lm.visLower, 35)
        leftLift == lm.lLift
        rightLift == lm.rLift
        sideUp == highKneesSideUp(lm, calib)
        minRepMs == 300
        lift == Max(leftLift, rightLift)
        liftPct == IF calib.has
                   THEN PctFixed0(lift - calib.downLift, calib.upLift - calib.downLift)
                   ELSE PctFixed0(lift - 20, 120)
        feedback == IF sideUp = "none"
                    THEN Feedback("Lift. Drive one knee higher.", liftPct, 0, "none")
                    ELSE Feedback("Lift. Knee up. Alternate.", liftPct, 0, sideUp)
        canCount == nowMs - prev.lastRepMs > minRepMs
        alternated == highKneesAlternated(prev.lastSide, sideUp)
        counted == sideUp # "none" /\ canCount /\ alternated
        rejected == sideUp # "none" /\ canCount /\ ~alternated
    IN  IF ~minVisible
        THEN [lostVisibility(prev) EXCEPT
                          !.feedback = Feedback("Make sure hips and knees are visible.", 0, 0, "none")]
        ELSE [prev EXCEPT
                !.repCount = IF counted THEN prev.repCount + 1 ELSE prev.repCount,
                !.phase = IF sideUp = "none" THEN "down" ELSE "up",
                !.lastRepMs = IF counted THEN nowMs ELSE prev.lastRepMs,
                !.reachedTarget = TRUE,
                !.lastSide = IF counted THEN sideUp ELSE prev.lastSide,
                !.feedback = feedback,
                !.decisionId = IF counted \/ rejected THEN prev.decisionId + 1 ELSE prev.decisionId,
                !.decisionKind = IF counted THEN "rep" ELSE IF rejected THEN "reject" ELSE "none",
                !.decisionMessage = IF counted THEN "Rep counted."
                                    ELSE IF rejected THEN "Alternate legs for clean reps." ELSE ""]

----------------------------------------------------------------------------
(* Calibration *)

NoCalibrationFor(ex) ==
    IF ex = "jumping_jacks" THEN NoJumpingJackCalibration
    ELSE IF ex = "high_knees" THEN NoHighKneesCalibration
    ELSE NoKneeCalibration

hasCalib(ex, calib) == IF ex = "burpees" THEN TRUE ELSE calib[ex].has

\* The confidence gate of captureCalibrationFrame: FALSE where it returns early.
captureGate(ex, lms) ==
    /\ lms.present
    /\ ex # "burpees"
    /\ isLandmarkConfident(lms.visLower, 35)
    /\ (ex = "jumping_jacks" => isLandmarkConfident(lms.visUpper, 35))

\* captureCalibrationFrame filling the step it does not capture from the defaults.
captureCalibrationFrameFromDefaults(c, ex, lms, step) ==
    LET angle == Min(lms.lKnee, lms.rKnee)
        lift == Max(lms.lLift, lms.rLift)
        knee(defTop, defBottom) ==
            [has |-> TRUE,
             topKneeAngle |-> IF step = 0 THEN angle
                              ELSE defTop,
             bottomKneeAngle |-> IF step = 1 THEN angle
                                 ELSE defBottom]
    IN  IF ex = "squats" THEN [c EXCEPT !.squats = knee(175, 110)]
        ELSE IF ex = "lunges" THEN [c EXCEPT !.lunges = knee(175, 115)]
        ELSE IF ex = "jump_squats" THEN [c EXCEPT !.jump_squats = knee(175, 110)]
        ELSE IF ex = "jumping_jacks"
        THEN [c EXCEPT !.jumping_jacks =
                [has |-> TRUE,
                 openAnkleRatio |-> IF step = 1 THEN lms.ratio
                     ELSE 145,
                 closedAnkleRatio |-> IF step = 0 THEN lms.ratio
                     ELSE 115,
                 openArmsLift |-> IF step = 1 THEN lms.armsLift
                     ELSE 80,
                 closedArmsLift |-> IF step = 0 THEN lms.armsLift
                     ELSE 20]]
        ELSE IF ex = "high_knees"
        THEN [c EXCEPT !.high_knees =
                [has |-> TRUE,
                 upLift |-> IF step = 1 THEN lift
                     ELSE 100,
                 downLift |-> IF step = 0 THEN lift
                     ELSE 20]]
        ELSE c

\* The updater captureCalibrationFrame passes to setCalibration.
captureCalibrationFrame(c, ex, lms, step) ==
    LET angle == Min(lms.lKnee, lms.rKnee)
        lift == Max(lms.lLift, lms.rLift)
        knee(defTop, defBottom) ==
            [has |-> TRUE,
             topKneeAngle |-> IF step = 0 THEN angle
                              ELSE IF c[ex].has THEN c[ex].topKneeAngle ELSE defTop,
             bottomKneeAngle |-> IF step = 1 THEN angle
                                 ELSE IF c[ex].has THEN c[ex].bottomKneeAngle ELSE defBottom]
    IN  IF ex = "squats" THEN [c EXCEPT !.squats = knee(175, 110)]
        ELSE IF ex = "lunges" THEN [c EXCEPT !.lunges = knee(175, 115)]
        ELSE IF ex = "jump_squats" THEN [c EXCEPT !.jump_squats = knee(175, 110)]
        ELSE IF ex = "jumping_jacks"
        THEN [c EXCEPT !.jumping_jacks =
                [has |-> TRUE,
                 openAnkleRatio |-> IF step = 1 THEN lms.ratio
                     ELSE IF c.jumping_jacks.has THEN c.jumping_jacks.openAnkleRatio ELSE 145,
                 closedAnkleRatio |-> IF step = 0 THEN lms.ratio
                     ELSE IF c.jumping_jacks.has THEN c.jumping_jacks.closedAnkleRatio ELSE 115,
                 openArmsLift |-> IF step = 1 THEN lms.armsLift
                     ELSE IF c.jumping_jacks.has THEN c.jumping_jacks.openArmsLift ELSE 80,
                 closedArmsLift |-> IF step = 0 THEN lms.armsLift
                     ELSE IF c.jumping_jacks.has THEN c.jumping_jacks.closedArmsLift ELSE 20]]
        ELSE IF ex = "high_knees"
        THEN [c EXCEPT !.high_knees =
                [has |-> TRUE,
                 upLift |-> IF step = 1 THEN lift
                     ELSE IF c.high_knees.has THEN c.high_knees.upLift ELSE 100,
                 downLift |-> IF step = 0 THEN lift
                     ELSE IF c.high_knees.has THEN c.high_knees.downLift ELSE 20]]
        ELSE c

\* The effect resetting the counters without re-evaluating whether to sample.
autoCalibResetKeepsActive(s, ex, calib) ==
    [s EXCEPT !.step = 0, !.stableMs = 0, !.lastOkMs = 0, !.lastCaptureMs = 0]

\* useEffect([exercise, calibration]): restart hands-free calibration.
autoCalibReset(s, ex, calib) ==
    [s EXCEPT !.active = ~hasCalib(ex, calib), !.step = 0, !.stableMs = 0,
              !.lastOkMs = 0, !.lastCaptureMs = 0]

----------------------------------------------------------------------------
(* Frame pump *)

\* classifyFrame whose paused branch keeps the decision of the last frame.
classifyFramePausedKeepsDecision(prev, ex, running, calib, lm, nowMs) ==
    IF prev.exercise # ex THEN InitialRepState(ex)
    ELSE IF ~running
    THEN [prev EXCEPT !.feedback = Feedback("Paused.", 0, 0, "none")]
    ELSE IF ex = "jumping_jacks"
         THEN IF script = "tracked"
              THEN updateJumpingJackStateTracked(prev, lm, nowMs, calib.jumping_jacks)
              ELSE updateJumpingJackState(prev, lm, nowMs, calib.jumping_jacks)
    ELSE IF ex = "squats" THEN updateSquatState(prev, lm, nowMs, calib.squats)
    ELSE IF ex = "lunges" THEN updateLungeState(prev, lm, nowMs, calib.lunges)
    ELSE IF ex = "high_knees" THEN updateHighKneesState(prev, lm, nowMs, calib.high_knees)
    ELSE IF ex = "jump_squats" THEN updateJumpSquatState(prev, lm, nowMs, calib.jump_squats)
    ELSE IF ex = "burpees" THEN updateBurpeeState(prev, lm, nowMs)
    ELSE prev

\* The setRepState updater of render() for a frame with a pose. A run of the
\* session-tracking version (script = "tracked") calls that version's
\* updateJumpingJackState; the other classifiers are the same in both.
classifyFrame(prev, ex, running, calib, lm, nowMs) ==
    IF prev.exercise # ex THEN InitialRepState(ex)
    ELSE IF ~running
    THEN [prev EXCEPT !.feedback = Feedback("Paused.", 0, 0, "none"),
                      !.decisionKind = "none", !.decisionMessage = ""]
    ELSE IF ex = "jumping_jacks"
         THEN IF script = "tracked"
              THEN updateJumpingJackStateTracked(prev, lm, nowMs, calib.jumping_jacks)
              ELSE updateJumpingJackState(prev, lm, nowMs, calib.jumping_jacks)
    ELSE IF ex = "squats" THEN updateSquatState(prev, lm, nowMs, calib.squats)
    ELSE IF ex = "lunges" THEN updateLungeState(prev, lm, nowMs, calib.lunges)
    ELSE IF ex = "high_knees" THEN updateHighKneesState(prev, lm, nowMs, calib.high_knees)
    ELSE IF ex = "jump_squats" THEN updateJumpSquatState(prev, lm, nowMs, calib.jump_squats)
    ELSE IF ex = "burpees" THEN updateBurpeeState(prev, lm, nowMs)
    ELSE prev

\* noPoseFrame that also drops the count.
noPoseFrameResets(prev) == [prev EXCEPT !.phase = "unknown", !.feedback = NoFeedback, !.repCount = 0]

\* The setRepState updater of render() for a frame without a pose.
noPoseFrame(prev) == [prev EXCEPT !.phase = "unknown", !.feedback = NoFeedback]

\* useEffect([repState.decisionId]): the event log.
decisionEffect(evts, old, new) ==
    IF new.decisionId = old.decisionId THEN evts
    ELSE IF new.decisionKind = "none" \/ new.decisionMessage = "" THEN evts
    ELSE IF new.decisionKind = "rep" /\ ~(new.repCount = 1 \/ new.repCount % 5 = 0) THEN evts
    ELSE SubSeq(<< [kind |-> new.decisionKind, reps |-> new.repCount,
                    message |-> IF new.decisionKind = "rep" THEN "Milestone" ELSE new.decisionMessage] >>
                \o evts, 1, Min(Len(evts) + 1, 20))

----------------------------------------------------------------------------
(* Inputs *)

\* Body poses the camera can deliver, at full landmark confidence.
StandPose == Landmarks(60, 60, 175, 175, 100, 0 - 200, 0 - 200, 0 - 200, 30, 50)

JackOpenPose == Landmarks(60, 60, 175, 175, 160, 100, 0 - 200, 0 - 200, 30, 50)

HalfSquatPose == Landmarks(60, 60, 140, 140, 100, 0 - 200, 0 - 150, 0 - 150, 40, 57)

DeepSquatPose == Landmarks(60, 60, 100, 100, 100, 0 - 200, 0 - 50, 0 - 50, 50, 65)

LeftKneeUpPose == Landmarks(60, 60, 90, 175, 100, 0 - 200, 100, 0 - 200, 30, 50)

RightKneeUpPose == Landmarks(60, 60, 175, 90, 100, 0 - 200, 0 - 200, 100, 30, 50)

PlankPose == Landmarks(60, 60, 175, 175, 100, 0 - 300, 0 - 200, 0 - 200, 60, 65)

withVis(p, v) == [p EXCEPT !.visUpper = v, !.visLower = v]

\* The frames fed while an exercise is active: its poses, and one frame whose
\* landmark confidence fails the classifier's gate but passes the capture gate
\* where the two differ.
FramesFor(ex) ==
    IF ex = "jumping_jacks" THEN {StandPose, JackOpenPose, withVis(StandPose, 45)}
    ELSE IF ex = "squats" THEN {StandPose, HalfSquatPose, DeepSquatPose, withVis(DeepSquatPose, 37)}
    ELSE IF ex = "jump_squats" THEN {StandPose, HalfSquatPose, DeepSquatPose, withVis(StandPose, 37)}
    ELSE IF ex = "lunges" THEN {StandPose, LeftKneeUpPose, DeepSquatPose, withVis(LeftKneeUpPose, 37)}
    ELSE IF ex = "high_knees" THEN {StandPose, LeftKneeUpPose, RightKneeUpPose, withVis(LeftKneeUpPose, 30)}
    ELSE {StandPose, DeepSquatPose, PlankPose, withVis(PlankPose, 30)}

----------------------------------------------------------------------------
(* State machine *)

\* The default of appendSession's maxSessions.
defaultMaxSessions == 50

\* appendSession that adds the new session at the end and never drops one.
appendSessionAtEnd(next, sessions, maxSessions) == Append(sessions, next)

\* appendSession(next, maxSessions) on the stored sessions: what it stores.
appendSession(next, sessions, maxSessions) ==
    SubSeq(<< next >> \o sessions, 1, Min(Len(sessions) + 1, maxSessions))

\* emptyAgg(): the quality aggregate of a new session.
emptyAgg ==
    [clean |-> 0, ok |-> 0, sloppy |-> 0, romSum |-> 0, romCount |-> 0,
     byExercise |-> [e \in {} |-> 0]]

\* The entry agg.byExercise[ex] ??= creates.
emptyExAgg == [clean |-> 0, ok |-> 0, sloppy |-> 0, romSum |-> 0, romCount |-> 0]

\* sessionRef.current of a new session (startedAt left out), with
\* lastCountedRepTsRef.current, which is reset with it.
emptySession ==
    [repsByExercise |-> [e \in {} |-> 0], totalRejects |-> 0, lastCountedRepTs |-> 0]

\* resetFreeSession(): a new session and a new aggregate.
resetFreeSession ==
    /\ session' = emptySession
    /\ quality' = emptyAgg

\* No rep judged yet.
NoRep == [exercise |-> "none", hasRom |-> FALSE, romPct |-> 0, tempoMs |-> 0, label |-> "none"]

\* The first useState value of planState.
mountPlanState ==
    [active |-> FALSE, planId |-> "starter_cardio", stepIndex |-> 0,
     stepStartedAt |-> 0, stepStartReps |-> 0]

\* barLine === null; y is the line's height and x1, x2 its ends, thousandths of
\* the frame.
NoBarLine == [set |-> FALSE, y |-> 0, x1 |-> 0, x2 |-> 0]

\* barDraft === null.
NoBarDraft == [set |-> FALSE, x |-> 0, y |-> 0]

\* barAuto { status: "idle" }.
idleBarAuto == [status |-> "idle", startedMs |-> 0]

\* The initial state of the subsystems around the engine, the second run apart.
\* The first useState value of trackingHealth.
mountTrackingHealth == [level |-> "lost", fps |-> 0, hint |-> "no_pose", missing |-> {"upper", "lower"}]

\* smoothedRef.current === null.
NoSmoothed == [set |-> FALSE, lms |-> << >>]

\* The state outside the pose engine at mount, with the sessions found in
\* localStorage.
SideInitStored(stored) ==
    /\ quality = emptyAgg
    /\ lastRep = NoRep
    /\ session = emptySession
    /\ planState = mountPlanState
    /\ planNowMs = 0
    /\ stepReps = 0
    /\ history = stored
    /\ barLine = NoBarLine
    /\ barDraft = NoBarDraft
    /\ barAuto = idleBarAuto
    /\ barAutoSamples = << >>
    /\ loop = [barLine |-> NoBarLine, barAuto |-> idleBarAuto]
    /\ lastClick = << 0, 0 >>
    /\ trackingHealth = mountTrackingHealth
    /\ lastVideoTime = 0 - 1
    /\ lastFrameMs = 0
    /\ smoothedRef = NoSmoothed

\* The initial state of the subsystems around the engine.
SideInit == SideInitStored(<< >>)

ExtInit ==
    /\ twin = [phase |-> "unknown", lastPhaseChangeMs |-> 0]
    /\ SideInit

\* The first useState value of autoCalib, which the render loop closes over.
mountAutoCalib == [active |-> FALSE, step |-> 0, stableMs |-> 0, lastOkMs |-> 0, lastCaptureMs |-> 0]

\* The calibration values localStorage can hold at mount: none, or the profile an
\* earlier session saved after capturing the first jumping-jack step.
StoredCalibration ==
    {EmptyCalibration, captureCalibrationFrame(EmptyCalibration, "jumping_jacks", StandPose, 0)}

\* The state once the mount effects have run: the stored profile is loaded and
\* hands-free calibration is armed for an exercise without a profile.
Init ==
    /\ exercise = "jumping_jacks"
    /\ sessionRunning = TRUE
    /\ calibration \in StoredCalibration
    /\ repState = InitialRepState("jumping_jacks")
    /\ autoCalib = autoCalibReset(mountAutoCalib, "jumping_jacks", calibration)
    /\ manualCalibOpen = FALSE
    /\ manualCalibStep = 0
    /\ events = << >>
    /\ lastLandmarks = NoLandmarks
    /\ now = 0
    /\ lastOp = "init"
    /\ script = "none"
    /\ frameLog = << >>
    /\ userOps = 0
    /\ ExtInit

\* The exercise the render closure captured at mount: isPoseStableForAutoCalibration
\* and captureCalibrationFrame, called from render(), read it.
mountExercise == "jumping_jacks"

isPoseStableForAutoCalibration(ex, lm, step) ==
    IF ex = "jumping_jacks"
    THEN /\ isLandmarkConfident(lm.visUpper, 35)
         /\ isLandmarkConfident(lm.visLower, 35)
         /\ IF step = 0 THEN lm.ratio < 125 /\ lm.armsLift < 40
                        ELSE lm.ratio > 140 /\ lm.armsLift > 60
    ELSE IF ex = "squats" \/ ex = "lunges"
    THEN /\ isLandmarkConfident(lm.visLower, 35)
         /\ IF step = 0 THEN Min(lm.lKnee, lm.rKnee) > 165 ELSE Min(lm.lKnee, lm.rKnee) < 130
    ELSE IF ex = "high_knees"
    THEN /\ isLandmarkConfident(lm.visLower, 35)
         /\ IF step = 0 THEN Max(lm.lLift, lm.rLift) < 40 ELSE Max(lm.lLift, lm.rLift) > 90
    ELSE FALSE

\* The decision of the setAutoCalib updater: capture the frame now.
autoCalibCaptures(s, okNow, nowMs) ==
    LET lastOkMs == IF okNow THEN (IF s.lastOkMs # 0 THEN s.lastOkMs ELSE nowMs) ELSE 0
        stableMs == IF okNow THEN nowMs - lastOkMs ELSE 0
        cooldownOk == nowMs - s.lastCaptureMs > 700
    IN  s.active /\ okNow /\ stableMs >= 900 /\ cooldownOk

\* The setAutoCalib updater of render().
autoCalibUpdater(s, okNow, nowMs) ==
    LET lastOkMs == IF okNow THEN (IF s.lastOkMs # 0 THEN s.lastOkMs ELSE nowMs) ELSE 0
        stableMs == IF okNow THEN nowMs - lastOkMs ELSE 0
    IN  IF ~s.active THEN s
        ELSE IF autoCalibCaptures(s, okNow, nowMs)
        THEN [s EXCEPT !.step = IF s.step = 0 THEN 1 ELSE 0, !.active = (s.step = 0),
                       !.stableMs = 0, !.lastOkMs = 0, !.lastCaptureMs = nowMs]
        ELSE [s EXCEPT !.stableMs = stableMs, !.lastOkMs = lastOkMs]

\* render() on a video frame in which a pose was detected, at performance.now() = nowMs.
\* closureActive and closureExercise are the values of autoCalib.active and exercise
\* that the closure of render() holds; the setAutoCalib updater itself works on the
\* current autoCalib.
renderPoseAs(closureActive, closureExercise, lm, nowMs) ==
    LET okNow == isPoseStableForAutoCalibration(closureExercise, lm, autoCalib.step)
        sampled == IF closureActive THEN autoCalibUpdater(autoCalib, okNow, nowMs)
                   ELSE autoCalib
        captured == /\ closureActive
                    /\ autoCalibCaptures(autoCalib, okNow, nowMs)
                    /\ captureGate(closureExercise, lm)
    IN  /\ now' = nowMs
        /\ lastLandmarks' = lm
        /\ calibration' = IF captured
                          THEN captureCalibrationFrame(calibration, closureExercise, lm, autoCalib.step)
                          ELSE calibration
        /\ autoCalib' = IF captured THEN autoCalibReset(sampled, exercise, calibration')
                        ELSE sampled
        /\ repState' = classifyFrame(repState, exercise, sessionRunning, calibration, lm, nowMs)
        /\ events' = decisionEffect(events, repState, repState')
        /\ lastOp' = "pose"
        /\ UNCHANGED << exercise, sessionRunning, manualCalibOpen, manualCalibStep >>

\* render() as the component runs it: the mount effect (dependency list []) creates
\* render() once, so the hands-free calibration block tests the autoCalib value and
\* reads the exercise of the first render, not the current state.
renderPose(lm, nowMs) == renderPoseAs(mountAutoCalib.active, mountExercise, lm, nowMs)

PoseFrame(lm, gap) ==
    /\ now + gap <= MaxNow
    /\ renderPose(lm, now + gap)
    /\ UNCHANGED << script, frameLog, userOps, extVars >>

\* render() on a video frame without a pose.
NoPoseFrame(gap) ==
    /\ now + gap <= MaxNow
    /\ now' = now + gap
    /\ repState' = noPoseFrame(repState)
    /\ events' = decisionEffect(events, repState, repState')
    /\ lastOp' = "nopose"
    /\ UNCHANGED extVars
    /\ UNCHANGED << exercise, sessionRunning, calibration, autoCalib, manualCalibOpen,
                    manualCalibStep, lastLandmarks, script, frameLog, userOps >>

\* exerciseReset that keeps the count.
exerciseResetKeepsCount(s, ex) ==
    [s EXCEPT !.exercise = ex, !.phase = "unknown", !.lastPhaseChangeMs = 0,
              !.lastRepMs = 0, !.reachedTarget = FALSE, !.lastSide = "none",
              !.feedback = NoFeedback, !.decisionId = 0, !.decisionKind = "none",
              !.decisionMessage = ""]

\* useEffect([exercise]): the reset of repState.
exerciseReset(s, ex) ==
    [s EXCEPT !.exercise = ex, !.repCount = 0, !.phase = "unknown", !.lastPhaseChangeMs = 0,
              !.lastRepMs = 0, !.reachedTarget = FALSE, !.lastSide = "none",
              !.feedback = NoFeedback, !.decisionId = 0, !.decisionKind = "none",
              !.decisionMessage = ""]

\* The exercise <select> onChange, with the effects of the exercise change.
SelectExercise(ex) ==
    /\ userOps < MaxUserOps
    /\ ~manualCalibOpen
    /\ ex # exercise
    /\ exercise' = ex
    /\ autoCalib' = autoCalibReset(autoCalib, ex, calibration)
    /\ repState' = exerciseReset(repState, ex)
    /\ events' = << >>
    /\ lastOp' = "select"
    /\ userOps' = userOps + 1
    /\ UNCHANGED extVars
    /\ UNCHANGED << sessionRunning, calibration, manualCalibOpen, manualCalibStep,
                    lastLandmarks, now, script, frameLog >>

\* The Pause / Resume button.
TogglePause ==
    /\ userOps < MaxUserOps
    /\ ~manualCalibOpen
    /\ sessionRunning' = ~sessionRunning
    /\ lastOp' = "pause"
    /\ userOps' = userOps + 1
    /\ UNCHANGED extVars
    /\ UNCHANGED << exercise, calibration, repState, autoCalib, manualCalibOpen,
                    manualCalibStep, events, lastLandmarks, now, script, frameLog >>

\* The updater of the Reset button.
resetButton(s) ==
    [s EXCEPT !.repCount = 0, !.phase = "unknown", !.lastPhaseChangeMs = 0, !.lastRepMs = 0,
              !.reachedTarget = FALSE, !.lastSide = "none", !.feedback = NoFeedback]

Reset ==
    /\ userOps < MaxUserOps
    /\ ~manualCalibOpen
    /\ repState' = resetButton(repState)
    /\ lastOp' = "reset"
    /\ userOps' = userOps + 1
    /\ UNCHANGED extVars
    /\ UNCHANGED << exercise, sessionRunning, calibration, autoCalib, manualCalibOpen,
                    manualCalibStep, events, lastLandmarks, now, script, frameLog >>

\* The Manual calibrate button.
OpenManualCalib ==
    /\ userOps < MaxUserOps
    /\ ~manualCalibOpen
    /\ exercise # "burpees"
    /\ manualCalibOpen' = TRUE
    /\ manualCalibStep' = 0
    /\ lastOp' = "openManual"
    /\ userOps' = userOps + 1
    /\ UNCHANGED extVars
    /\ UNCHANGED << exercise, sessionRunning, calibration, repState, autoCalib, events,
                    lastLandmarks, now, script, frameLog >>

\* The capture button writing the profile of the exercise render() closed over.
ManualCaptureMountExercise ==
    /\ userOps < MaxUserOps
    /\ manualCalibOpen
    /\ IF captureGate(exercise, lastLandmarks)
       THEN /\ calibration' = captureCalibrationFrame(calibration, mountExercise, lastLandmarks, manualCalibStep)
            /\ autoCalib' = autoCalibReset(autoCalib, exercise, calibration')
       ELSE UNCHANGED << calibration, autoCalib >>
    /\ IF manualCalibStep = 0
       THEN manualCalibStep' = 1 /\ UNCHANGED manualCalibOpen
       ELSE manualCalibOpen' = FALSE /\ UNCHANGED manualCalibStep
    /\ lastOp' = "capture"
    /\ userOps' = userOps + 1
    /\ UNCHANGED extVars
    /\ UNCHANGED << exercise, sessionRunning, repState, events, lastLandmarks, now,
                    script, frameLog >>

\* The capture button of the manual calibration dialog.
ManualCapture ==
    /\ userOps < MaxUserOps
    /\ manualCalibOpen
    /\ IF captureGate(exercise, lastLandmarks)
       THEN /\ calibration' = captureCalibrationFrame(calibration, exercise, lastLandmarks, manualCalibStep)
            /\ autoCalib' = autoCalibReset(autoCalib, exercise, calibration')
       ELSE UNCHANGED << calibration, autoCalib >>
    /\ IF manualCalibStep = 0
       THEN manualCalibStep' = 1 /\ UNCHANGED manualCalibOpen
       ELSE manualCalibOpen' = FALSE /\ UNCHANGED manualCalibStep
    /\ lastOp' = "capture"
    /\ userOps' = userOps + 1
    /\ UNCHANGED extVars
    /\ UNCHANGED << exercise, sessionRunning, repState, events, lastLandmarks, now,
                    script, frameLog >>

\* The Close button and the backdrop of the manual calibration dialog.
CloseManualCalib ==
    /\ userOps < MaxUserOps
    /\ manualCalibOpen
    /\ manualCalibOpen' = FALSE
    /\ lastOp' = "closeManual"
    /\ userOps' = userOps + 1
    /\ UNCHANGED extVars
    /\ UNCHANGED << exercise, sessionRunning, calibration, repState, autoCalib,
                    manualCalibStep, events, lastLandmarks, now, script, frameLog >>

\* The step toggle of the manual calibration dialog.
ToggleManualStep ==
    /\ userOps < MaxUserOps
    /\ manualCalibOpen
    /\ manualCalibStep' = IF manualCalibStep = 0 THEN 1 ELSE 0
    /\ lastOp' = "toggleStep"
    /\ userOps' = userOps + 1
    /\ UNCHANGED extVars
    /\ UNCHANGED << exercise, sessionRunning, calibration, repState, autoCalib,
                    manualCalibOpen, events, lastLandmarks, now, script, frameLog >>

\* The Clear button of the calibration card.
ClearCalibration ==
    /\ userOps < MaxUserOps
    /\ ~manualCalibOpen
    /\ exercise # "burpees"
    /\ calibration' = [calibration EXCEPT ![exercise] = NoCalibrationFor(exercise)]
    /\ autoCalib' = autoCalibReset(autoCalib, exercise, calibration')
    /\ lastOp' = "clear"
    /\ userOps' = userOps + 1
    /\ UNCHANGED extVars
    /\ UNCHANGED << exercise, sessionRunning, repState, manualCalibOpen, manualCalibStep,
                    events, lastLandmarks, now, script, frameLog >>

Next ==
    \/ \E lm \in FramesFor(exercise), gap \in FrameGaps : PoseFrame(lm, gap)
    \/ \E gap \in FrameGaps : NoPoseFrame(gap)
    \/ \E ex \in ExerciseId : SelectExercise(ex)
    \/ TogglePause
    \/ Reset
    \/ OpenManualCalib
    \/ ManualCapture
    \/ CloseManualCalib
    \/ ToggleManualStep
    \/ ClearCalibration

Spec == Init /\ [][Next]_vars

TypeOK ==
    /\ exercise \in ExerciseId
    /\ sessionRunning \in BOOLEAN
    /\ repState.exercise = exercise
    /\ repState.repCount \in Nat
    /\ repState.phase \in {"unknown", "closed", "open", "up", "down"}
    /\ repState.decisionKind \in {"none", "rep", "reject"}
    /\ now \in 0..MaxNow

----------------------------------------------------------------------------
(* Scripted squat sessions: a fresh squat state fed a knee-angle sequence *)

MaxScriptLen == 4

ScriptGaps == {110, 120, 220, 350, 700}

ShallowGaps == {110, 350}

DeepAngles == << 175, 175, 100, 100, 175 >>

ShallowAngles == {140, 160, 175}

\* A confident frame whose two knee angles are a.
squatFrame(a) == Landmarks(60, 60, a, a, 100, 0 - 200, 0 - 200, 0 - 200, 30, 50)

InitScript ==
    /\ exercise = "squats"
    /\ sessionRunning = TRUE
    /\ calibration = EmptyCalibration
    /\ repState = InitialRepState("squats")
    /\ autoCalib = autoCalibReset(mountAutoCalib, "squats", EmptyCalibration)
    /\ manualCalibOpen = FALSE
    /\ manualCalibStep = 0
    /\ events = << >>
    /\ lastLandmarks = NoLandmarks
    /\ now = 0
    /\ lastOp = "init"
    /\ script \in {"deep", "shallow"}
    /\ frameLog = << >>
    /\ userOps = 0
    /\ ExtInit

DeepFrame(gap) ==
    /\ script = "deep"
    /\ Len(frameLog) < Len(DeepAngles)
    /\ renderPose(squatFrame(DeepAngles[Len(frameLog) + 1]), now + gap)
    /\ frameLog' = Append(frameLog, [t |-> now + gap, angle |-> DeepAngles[Len(frameLog) + 1]])
    /\ UNCHANGED << script, userOps, extVars >>

ShallowFrame(a, gap) ==
    /\ script = "shallow"
    /\ Len(frameLog) < MaxScriptLen
    /\ renderPose(squatFrame(a), now + gap)
    /\ frameLog' = Append(frameLog, [t |-> now + gap, angle |-> a])
    /\ UNCHANGED << script, userOps, extVars >>

NextScript ==
    \/ \E gap \in ScriptGaps : DeepFrame(gap)
    \/ \E a \in ShallowAngles, gap \in ShallowGaps : ShallowFrame(a, gap)

SpecScript == InitScript /\ [][NextScript]_vars

----------------------------------------------------------------------------
(* Vocabulary of the properties *)

\* The confidence gate (minVisible) of each classifier.
minVisible(ex, lm) ==
    IF ex = "jumping_jacks"
    THEN isLandmarkConfident(lm.visUpper, 50) /\ isLandmarkConfident(lm.visLower, 40)
    ELSE IF ex = "high_knees" THEN isLandmarkConfident(lm.visLower, 35)
    ELSE IF ex = "burpees"
    THEN isLandmarkConfident(lm.visUpper, 35) /\ isLandmarkConfident(lm.visLower, 35)
    ELSE isLandmarkConfident(lm.visLower, 40)

\* minRepMs of each classifier.
minRepMs(ex) ==
    IF ex = "jumping_jacks" THEN 500
    ELSE IF ex = "squats" THEN 700
    ELSE IF ex = "lunges" THEN 750
    ELSE IF ex = "high_knees" THEN 300
    ELSE IF ex = "jump_squats" THEN 520
    ELSE 950

\* minPhaseMs of each classifier with a phase debounce.
minPhaseMs(ex) ==
    IF ex = "jumping_jacks" THEN 180
    ELSE IF ex = "jump_squats" THEN 200
    ELSE 220

\* The phase a rep is counted out of, and the phase it is counted into.
innerPhase(ex) == IF ex \in {"jumping_jacks", "burpees"} THEN "open" ELSE "down"

outerPhase(ex) == IF ex = "jumping_jacks" THEN "closed" ELSE "up"

\* A step of the frame pump: render() alone advances the clock.
FrameStep == now' # now

\* A frame step that hands the frame to the classifier of the active exercise.
ClassifierStep == FrameStep /\ lastOp' = "pose" /\ sessionRunning /\ repState.exercise = exercise

\* The step takes the counting edge of the active exercise: inner -> outer phase, or
\* for high knees a lift of the side opposite to the last counted one.
EdgeTaken ==
    IF exercise = "high_knees"
    THEN LET side == highKneesSideUp(lastLandmarks', calibration.high_knees)
         IN  /\ minVisible(exercise, lastLandmarks')
             /\ side # "none"
             /\ (repState.lastSide = "none" \/ repState.lastSide # side)
    ELSE repState.phase = innerPhase(exercise) /\ repState'.phase = outerPhase(exercise)

IntervalOk == now' - repState.lastRepMs > minRepMs(exercise)

Counted == repState'.repCount > repState.repCount

CountingStateUnchanged ==
    /\ repState'.repCount = repState.repCount
    /\ repState'.reachedTarget = repState.reachedTarget
    /\ repState'.lastSide = repState.lastSide
    /\ repState'.lastRepMs = repState.lastRepMs
    /\ repState'.lastPhaseChangeMs = repState.lastPhaseChangeMs
    /\ repState'.decisionId = repState.decisionId

----------------------------------------------------------------------------
(* Properties *)

\* C1: a change of the active exercise resets repCount to 0, phase to unknown,
\* reachedTarget to false, lastSide to none and both timestamps to 0, and leaves
\* every calibration entry as it was.
C1_SwitchResetsAndKeepsCalibration ==
    [][exercise' # exercise =>
        /\ repState'.exercise = exercise'
        /\ repState'.repCount = 0
        /\ repState'.phase = "unknown"
        /\ repState'.reachedTarget = FALSE
        /\ repState'.lastSide = "none"
        /\ repState'.lastPhaseChangeMs = 0
        /\ repState'.lastRepMs = 0
        /\ calibration' = calibration]_vars

\* C1 witness: the exercise was switched away from jumping jacks after frames were
\* processed while a stored jumping-jack profile was loaded, and the profile is still there.
C1_Witness ==
    /\ lastOp = "select"
    /\ exercise # "jumping_jacks"
    /\ calibration.jumping_jacks.has
    /\ calibration.jumping_jacks.closedAnkleRatio # 115
    /\ now > 0
    /\ repState.repCount = 0

\* C2 as stated: on every frame, repCount grows only if the frame takes the counting
\* edge, reachedTarget was set before it and more than minRepMs passed since
\* lastRepMs; if the edge is taken and the flag or the interval fails, repCount stays.
C2_CountNeedsEdgeFlagInterval ==
    [][FrameStep =>
        /\ Counted => ClassifierStep /\ EdgeTaken /\ repState.reachedTarget /\ IntervalOk
        /\ (ClassifierStep /\ EdgeTaken /\ ~(repState.reachedTarget /\ IntervalOk))
              => repState'.repCount = repState.repCount]_vars

\* C2 amended: the same, with the reachedTarget condition only for the classifiers
\* that consult the flag (all but high knees, which counts on alternation alone).
C2_CountNeedsEdgeIntervalAndFlagWhereKept ==
    [][FrameStep =>
        /\ Counted => /\ ClassifierStep /\ EdgeTaken /\ IntervalOk
                      /\ (exercise # "high_knees" => repState.reachedTarget)
                      /\ repState'.repCount = repState.repCount + 1
        /\ (/\ ClassifierStep /\ EdgeTaken
            /\ ~(IntervalOk /\ (exercise # "high_knees" => repState.reachedTarget)))
              => repState'.repCount = repState.repCount]_vars

\* C2 witness: a squat counting edge was rejected after an earlier rep was counted.
C2_Witness ==
    /\ exercise = "squats"
    /\ lastOp = "pose"
    /\ repState.repCount >= 1
    /\ repState.decisionKind = "reject"
    /\ repState.phase = "up"
    /\ repState.lastPhaseChangeMs = now

\* C3 as stated: no frame processed from phase unknown changes repCount.
C3_UnknownPhaseNeverCounts ==
    [][FrameStep /\ repState.phase = "unknown" => repState'.repCount = repState.repCount]_vars

\* C3 amended: for every exercise but high knees, no frame processed from phase
\* unknown changes repCount.
C3_UnknownPhaseNeverCountsExceptHighKnees ==
    [][FrameStep /\ repState.phase = "unknown" /\ exercise # "high_knees"
          => repState'.repCount = repState.repCount]_vars

\* C3 witness: squats went down, lost the pose, and came back up out of phase
\* unknown with reachedTarget set and the interval elapsed, and nothing was counted
\* or decided (a down -> up transition would have produced a decision).
C3_Witness ==
    /\ exercise = "squats"
    /\ lastOp = "pose"
    /\ repState.phase = "up"
    /\ repState.lastPhaseChangeMs = now
    /\ repState.reachedTarget
    /\ now - repState.lastRepMs > 700
    /\ repState.repCount = 0
    /\ repState.decisionId = 0

\* C4 as stated: no step that keeps the exercise lowers repCount.
C4_CountNeverDecreases ==
    [][exercise' = exercise => repState'.repCount >= repState.repCount]_vars

\* C4 amended: no step that keeps the exercise lowers repCount, except the Reset
\* button, which sets it to 0.
C4_CountNeverDecreasesExceptReset ==
    [][exercise' = exercise =>
        IF lastOp' = "reset" /\ ~FrameStep
        THEN repState'.repCount = 0
        ELSE repState'.repCount >= repState.repCount]_vars

\* C4 witness: a pause, a calibration capture or a profile clear ran with reps on
\* the counter.
C4_Witness ==
    /\ lastOp \in {"pause", "capture", "clear"}
    /\ repState.repCount >= 1

\* C5: the squat sequence 175,175,100,100,175 from a fresh state, at least 220 ms
\* between samples and at least 700 ms from the first 100-degree frame to the last
\* frame, ends with repCount 1 and exactly one decision, a rep.
C5_DeepSquatCountsOnce ==
    (/\ script = "deep"
     /\ Len(frameLog) = 5
     /\ \A i \in 1..4 : frameLog[i + 1].t - frameLog[i].t >= 220
     /\ frameLog[5].t - frameLog[3].t >= 700)
    => /\ repState.repCount = 1
       /\ repState.decisionId = 1
       /\ repState.decisionKind = "rep"
       /\ events = << [kind |-> "rep", reps |-> 1, message |-> "Milestone"] >>

\* C5 witness: such a sequence was fed, with exactly 700 ms from the first
\* 100-degree frame to the last frame.
C5_Witness ==
    /\ script = "deep"
    /\ Len(frameLog) = 5
    /\ \A i \in 1..4 : frameLog[i + 1].t - frameLog[i].t >= 220
    /\ frameLog[5].t - frameLog[3].t = 700
    /\ repState.repCount = 1

\* C6 as stated: the same sequence (at least 220 ms between samples) with less than
\* 700 ms from the down-phase entry to the final up transition ends with a
\* too-fast reject and repCount 0.
C6_FastDeepSquatRejected ==
    (/\ script = "deep"
     /\ Len(frameLog) = 5
     /\ \A i \in 1..4 : frameLog[i + 1].t - frameLog[i].t >= 220
     /\ frameLog[5].t - frameLog[3].t < 700)
    => /\ repState.decisionKind = "reject"
       /\ repState.decisionMessage = "Too fast. Slow down."
       /\ repState.repCount = 0

\* C6 amended: the sequence 175,175,100,100,175 whose last frame takes the up
\* transition at most 700 ms after the last counted rep (after time 0 when none
\* was counted) ends with a too-fast reject and repCount 0; when it takes it
\* later, the rep is counted, however short the down phase was.
C6_RejectedWithinIntervalOfLastRep ==
    (/\ script = "deep"
     /\ Len(frameLog) = 5
     /\ repState.phase = "up"
     /\ repState.lastPhaseChangeMs = frameLog[5].t)
    => IF frameLog[5].t <= 700
       THEN /\ repState.decisionKind = "reject"
            /\ repState.decisionMessage = "Too fast. Slow down."
            /\ repState.repCount = 0
       ELSE /\ repState.decisionKind = "rep"
            /\ repState.repCount = 1

\* C6 witness: the last frame took the up transition within 700 ms of time 0.
C6_Witness ==
    /\ script = "deep"
    /\ Len(frameLog) = 5
    /\ repState.phase = "up"
    /\ repState.lastPhaseChangeMs = frameLog[5].t
    /\ frameLog[5].t <= 700
    /\ repState.decisionKind = "reject"

\* C7: a squat sequence from a fresh state whose knee angle never goes below 140
\* degrees never enters phase down and never produces a rep or a reject.
C7_ShallowSquatNeverDown ==
    script = "shallow" =>
        /\ repState.phase # "down"
        /\ repState.decisionKind = "none"
        /\ repState.decisionId = 0
        /\ repState.repCount = 0
        /\ events = << >>

\* C7 witness: the angle reached 140 degrees and returned to 175 degrees.
C7_Witness ==
    /\ script = "shallow"
    /\ Len(frameLog) >= 3
    /\ frameLog[Len(frameLog) - 1].angle = 140
    /\ frameLog[Len(frameLog)].angle = 175
    /\ frameLog[Len(frameLog)].t - frameLog[Len(frameLog) - 1].t > 220
    /\ repState.phase = "up"

\* C8: for the classifiers that count on a phase transition (lunges among them),
\* every frame that takes the counting edge while reachedTarget is unset or the
\* interval since lastRepMs is too short produces a reject decision with a
\* non-empty reason and the next decisionId.
C8_FailedAttemptIsRejected ==
    [][(/\ ClassifierStep
        /\ exercise # "high_knees"
        /\ EdgeTaken
        /\ ~(repState.reachedTarget /\ IntervalOk))
       => /\ repState'.decisionKind = "reject"
          /\ repState'.decisionMessage # ""
          /\ repState'.decisionId = repState.decisionId + 1]_vars

\* C9: every frame that increments repCount emits a rep decision with the next
\* decisionId on that frame, and (where the classifier keeps the flag) clears
\* reachedTarget.
C9_CountedRepEmitsDecision ==
    [][FrameStep /\ Counted =>
        /\ repState'.decisionKind = "rep"
        /\ repState'.decisionId = repState.decisionId + 1
        /\ (exercise # "high_knees" => ~repState'.reachedTarget)]_vars

\* C10: a frame handed to a classifier whose landmarks fail its confidence gate,
\* and a frame without a pose, set phase to unknown and leave repCount,
\* reachedTarget, lastSide, lastRepMs, lastPhaseChangeMs and decisionId as they were.
C10_DropoutKeepsCountingState ==
    [][(\/ FrameStep /\ lastOp' = "nopose"
        \/ ClassifierStep /\ ~minVisible(exercise, lastLandmarks'))
       => /\ repState'.phase = "unknown"
          /\ CountingStateUnchanged]_vars

\* C10 witness: a frame failed the gate of the running classifier after a rep was
\* counted and while the flag was set again.
C10_Witness ==
    /\ lastOp = "pose"
    /\ sessionRunning
    /\ ~minVisible(exercise, lastLandmarks)
    /\ repState.phase = "unknown"
    /\ repState.repCount >= 1
    /\ repState.reachedTarget
    /\ repState.lastPhaseChangeMs < now

\* C11 as stated: in every classifier with a phase debounce, whenever a frame
\* changes phase after an earlier phase change, more than minPhaseMs passed since
\* that change.
C11_PhaseChangeAfterMinPhase ==
    [][(/\ FrameStep
        /\ exercise # "high_knees"
        /\ repState'.phase # repState.phase
        /\ repState.lastPhaseChangeMs > 0)
       => now' - repState.lastPhaseChangeMs > minPhaseMs(exercise)]_vars

\* C11 amended: the same for a change from one known phase to another; a change
\* out of phase unknown (first frame, after a reset or a dropout) and a change
\* into phase unknown (dropout) are not debounced.
C11_KnownPhaseChangeAfterMinPhase ==
    [][(/\ FrameStep
        /\ exercise # "high_knees"
        /\ repState'.phase # repState.phase
        /\ repState.phase # "unknown"
        /\ repState'.phase # "unknown")
       => /\ ClassifierStep
          /\ now' - repState.lastPhaseChangeMs > minPhaseMs(exercise)
          /\ repState'.lastPhaseChangeMs = now']_vars

\* C11 witness: a frame showing the other phase came within the debounce window and
\* left the phase as it was (a standing squat state shown a deep squat).
C11_Witness ==
    /\ exercise = "squats"
    /\ lastOp = "pose"
    /\ sessionRunning
    /\ repState.phase = "up"
    /\ minVisible(exercise, lastLandmarks)
    /\ Min(lastLandmarks.lKnee, lastLandmarks.rKnee) < 115
    /\ now - repState.lastPhaseChangeMs <= 220
    /\ repState.lastPhaseChangeMs > 0

----------------------------------------------------------------------------
(* Rep quality (session-tracking version of PoseRepCounter) *)

MaxJudged == 1

\* The pose-engine variables a step outside the frame pump leaves alone.
engineVars == << exercise, sessionRunning, calibration, repState, autoCalib,
                 manualCalibOpen, manualCalibStep, events, lastLandmarks, now,
                 script, frameLog, userOps >>

\* minTempo with the default of 650 ms for every exercise.
minTempoUniform(ex) == 650

\* minTempo of classifyRep.
minTempo(ex) ==
    IF ex = "jumping_jacks" THEN 380
    ELSE IF ex = "high_knees" THEN 300
    ELSE IF ex = "jump_squats" THEN 520
    ELSE IF ex = "lunges" THEN 750
    ELSE IF ex = "squats" THEN 700
    ELSE 650

\* classifyRep judging range of motion before tempo.
classifyRepRomFirst(ex, hasRom, romPct, tempoMs) ==
    IF ~hasRom THEN (IF tempoMs > 0 /\ tempoMs < minTempo(ex) THEN "sloppy" ELSE "ok")
    ELSE IF romPct >= 70 THEN "clean"
    ELSE IF romPct >= 50 THEN "ok"
    ELSE "sloppy"

\* classifyRep(exercise, romPct, tempoMs); romPct === null is hasRom = FALSE.
classifyRep(ex, hasRom, romPct, tempoMs) ==
    IF tempoMs > 0 /\ tempoMs < minTempo(ex) THEN "sloppy"
    ELSE IF ~hasRom THEN "ok"
    ELSE IF romPct >= 70 THEN "clean"
    ELSE IF romPct >= 50 THEN "ok"
    ELSE "sloppy"

\* The ROM% values romPctFromFeedback can return (it clamps to 0..100).
RomValues == {0, 30, 49, 50, 55, 69, 70, 72, 100}

\* Times between two counted reps, around each exercise's minimum tempo; 0 is the
\* tempo of the first counted rep.
TempoValues == {0, 1, 299, 300, 379, 380, 519, 520, 649, 650, 699, 700, 749, 750, 2000}

\* sessionRef.current.repsByExercise[ex] = (repsByExercise[ex] ?? 0) + 1.
countRep(reps, ex) ==
    [e \in DOMAIN reps \cup {ex} |-> IF e = ex THEN (IF ex \in DOMAIN reps THEN reps[ex] ELSE 0) + 1
                                     ELSE reps[e]]

\* One label count and, when ROM% is a number, the ROM sum and count.
addRep(a, label, hasRom, romPct) ==
    [a EXCEPT ![label] = @ + 1,
              !.romSum = IF hasRom THEN @ + romPct ELSE @,
              !.romCount = IF hasRom THEN @ + 1 ELSE @]

\* The aggregate that forgets the per-exercise entry of the rep.
addToAggGlobalOnly(agg, ex, label, hasRom, romPct) ==
    addRep(agg, label, hasRom, romPct)

\* The rep added to the global counts and to the entry of its exercise.
addToAgg(agg, ex, label, hasRom, romPct) ==
    LET exAgg == IF ex \in DOMAIN agg.byExercise THEN agg.byExercise[ex] ELSE emptyExAgg
        by == [e \in DOMAIN agg.byExercise \cup {ex} |->
                  IF e = ex THEN addRep(exAgg, label, hasRom, romPct) ELSE agg.byExercise[e]]
    IN  [addRep(agg, label, hasRom, romPct) EXCEPT !.byExercise = by]

\* The rep branch of useEffect([repState.decisionId]): judge the rep and add it to
\* the quality aggregate.
countedRep(ex, hasRom, romPct, tempoMs) ==
    LET label == classifyRep(ex, hasRom, romPct, tempoMs)
    IN  /\ session' = [session EXCEPT !.repsByExercise = countRep(@, ex)]
        /\ quality' = addToAgg(quality, ex, label, hasRom, romPct)
        /\ lastRep' = [exercise |-> ex, hasRom |-> hasRom, romPct |-> romPct,
                       tempoMs |-> tempoMs, label |-> label]
        /\ lastOp' = "judge"
        /\ UNCHANGED << engineVars, twin, planVars, barVars, pumpVars >>

\* A counted rep reaching the effect, while fewer than MaxJudged were judged.
JudgeRep(ex, hasRom, romPct, tempoMs) ==
    /\ quality.clean + quality.ok + quality.sloppy < MaxJudged
    /\ countedRep(ex, hasRom, romPct, tempoMs)

InitQuality == Init /\ calibration = EmptyCalibration

NextQuality ==
    \/ \E ex \in ExerciseId, romPct \in RomValues, tempoMs \in TempoValues :
          JudgeRep(ex, TRUE, romPct, tempoMs)
    \/ \E ex \in ExerciseId, tempoMs \in TempoValues : JudgeRep(ex, FALSE, 0, tempoMs)

SpecQuality == InitQuality /\ [][NextQuality]_vars

\* C12: classifyRep returns sloppy whenever tempo is positive and below the
\* exercise's minimum tempo, whatever ROM% is; otherwise ok when ROM% is undefined,
\* clean when ROM% >= 70, ok when 50 <= ROM% < 70 and sloppy when ROM% < 50; so
\* ROM 72 gives clean, 55 gives ok and 30 gives sloppy.
C12_ClassifyRepLabels ==
    lastOp = "judge" =>
        LET tooFast == lastRep.tempoMs > 0 /\ lastRep.tempoMs < minTempo(lastRep.exercise)
        IN  /\ tooFast => lastRep.label = "sloppy"
            /\ (~tooFast /\ ~lastRep.hasRom) => lastRep.label = "ok"
            /\ (~tooFast /\ lastRep.hasRom /\ lastRep.romPct >= 70) => lastRep.label = "clean"
            /\ (~tooFast /\ lastRep.hasRom /\ lastRep.romPct >= 50 /\ lastRep.romPct < 70)
                  => lastRep.label = "ok"
            /\ (~tooFast /\ lastRep.hasRom /\ lastRep.romPct < 50) => lastRep.label = "sloppy"
            /\ (~tooFast /\ lastRep.hasRom /\ lastRep.romPct = 72) => lastRep.label = "clean"
            /\ (~tooFast /\ lastRep.hasRom /\ lastRep.romPct = 55) => lastRep.label = "ok"
            /\ (~tooFast /\ lastRep.hasRom /\ lastRep.romPct = 30) => lastRep.label = "sloppy"
            /\ quality[lastRep.label] >= 1

\* C12 witness: a rep with ROM 72 done faster than the exercise's minimum tempo was
\* judged sloppy.
C12_Witness ==
    /\ lastOp = "judge"
    /\ lastRep.hasRom
    /\ lastRep.romPct = 72
    /\ lastRep.tempoMs > 0
    /\ lastRep.tempoMs < minTempo(lastRep.exercise)
    /\ lastRep.label = "sloppy"

----------------------------------------------------------------------------
(* Hands-free calibration: an exercise without a profile, the user holding poses *)

MaxHoldFrames == 4

\* Times between processed frames: two short gaps that add up to just under and
\* just over the 900 ms stability window, and a long one.
HoldGaps == {445, 455, 1000}

\* The exercises that have a calibration profile.
HoldExercises == {"jumping_jacks", "squats", "lunges", "high_knees", "jump_squats"}

\* The pose the hint of a calibration step asks for.
HoldPose(ex, step) ==
    IF ex = "jumping_jacks" THEN (IF step = 0 THEN StandPose ELSE JackOpenPose)
    ELSE IF ex = "high_knees" THEN (IF step = 0 THEN StandPose ELSE LeftKneeUpPose)
    ELSE (IF step = 0 THEN StandPose ELSE DeepSquatPose)

\* A session started with a stored exercise and no profile. script = "hold" runs the
\* component as it is; script = "live" runs the hands-free block as its code reads
\* when render() sees the current autoCalib and exercise.
InitHoldAs(kind) ==
    /\ exercise \in HoldExercises
    /\ sessionRunning = TRUE
    /\ calibration = EmptyCalibration
    /\ repState = InitialRepState(exercise)
    /\ autoCalib = autoCalibReset(mountAutoCalib, exercise, EmptyCalibration)
    /\ manualCalibOpen = FALSE
    /\ manualCalibStep = 0
    /\ events = << >>
    /\ lastLandmarks = NoLandmarks
    /\ now = 0
    /\ lastOp = "init"
    /\ script = kind
    /\ frameLog = << >>
    /\ userOps = 0
    /\ ExtInit

\* render() on a frame showing the pose of calibration step `step`.
HoldFrame(step, gap) ==
    /\ script \in {"hold", "live"}
    /\ Len(frameLog) < MaxHoldFrames
    /\ IF script = "live"
       THEN renderPoseAs(autoCalib.active, exercise, HoldPose(exercise, step), now + gap)
       ELSE renderPose(HoldPose(exercise, step), now + gap)
    /\ frameLog' = Append(frameLog, [t |-> now + gap, pose |-> step])
    /\ UNCHANGED << script, userOps, extVars >>

\* render() on a frame without a pose (pose -1 in the log).
HoldNoPose(gap) ==
    /\ script \in {"hold", "live"}
    /\ Len(frameLog) < MaxHoldFrames
    /\ now' = now + gap
    /\ repState' = noPoseFrame(repState)
    /\ events' = decisionEffect(events, repState, repState')
    /\ lastOp' = "nopose"
    /\ frameLog' = Append(frameLog, [t |-> now + gap, pose |-> 0 - 1])
    /\ UNCHANGED << exercise, sessionRunning, calibration, autoCalib, manualCalibOpen,
                    manualCalibStep, lastLandmarks, script, userOps, extVars >>

NextHold ==
    \/ \E step \in {0, 1}, gap \in HoldGaps : HoldFrame(step, gap)
    \/ \E gap \in HoldGaps : HoldNoPose(gap)

InitHold == InitHoldAs("hold")

SpecHold == InitHold /\ [][NextHold]_vars

InitHandsFree == InitHoldAs("live")

SpecHandsFree == InitHandsFree /\ [][NextHold]_vars

C15_HeldPosesCalibrate ==
    (/\ script = "hold"
     /\ Len(frameLog) = 4
     /\ frameLog[1].pose = 0 /\ frameLog[2].pose = 0
     /\ frameLog[2].t - frameLog[1].t >= 900
     /\ frameLog[3].pose = 1 /\ frameLog[4].pose = 1
     /\ frameLog[4].t - frameLog[3].t >= 900)
    => hasCalib(exercise, calibration) /\ ~autoCalib.active

----------------------------------------------------------------------------
(* Calibration round trip: a calibrated squat run beside a default-threshold run *)

MaxTwinFrames == 3

TwinGaps == {110, 250}

\* Knee angles at and around the places where the two runs can disagree.
TwinAngles == {105, 110, 112, 115, 129, 131, 132, 153, 156, 158, 164, 166, 168, 175}

\* The profile after capturing top = 175 and bottom = 105 for squats.
CapturedProfile ==
    captureCalibrationFrame(
        captureCalibrationFrame(EmptyCalibration, "squats", squatFrame(175), 0),
        "squats", squatFrame(105), 1)

InitTwin ==
    /\ exercise = "squats"
    /\ sessionRunning = TRUE
    /\ calibration = CapturedProfile
    /\ repState = InitialRepState("squats")
    /\ autoCalib = autoCalibReset(mountAutoCalib, "squats", CapturedProfile)
    /\ manualCalibOpen = FALSE
    /\ manualCalibStep = 0
    /\ events = << >>
    /\ lastLandmarks = NoLandmarks
    /\ now = 0
    /\ lastOp = "init"
    /\ script = "twin"
    /\ frameLog = << >>
    /\ userOps = 0
    /\ ExtInit

\* The phase step of updateSquatState on default thresholds for the knee angle a
\* of the calibrated run scaled to the default range:
\* 110 + (a - bottom) * (175 - 110) / (top - bottom) degrees, kept as a fraction.
twinStep(t, a, nowMs, calib) ==
    LET th == squatThresholds(NoKneeCalibration)
        den == calib.topKneeAngle - calib.bottomKneeAngle
        num == th.bottom * den + (a - calib.bottomKneeAngle) * (th.top - th.bottom)
        canSwitch == nowMs - t.lastPhaseChangeMs > 220
        nextPhase == hingePhase(t.phase, hingeIsDown(t.phase, num, den, th),
                                hingeIsUp(t.phase, num, den, th), canSwitch)
    IN  [phase |-> nextPhase,
         lastPhaseChangeMs |-> IF nextPhase # t.phase THEN nowMs ELSE t.lastPhaseChangeMs]

\* render() on a frame with knee angle a, and the default-threshold run on the
\* scaled angle.
TwinFrame(a, gap) ==
    /\ script = "twin"
    /\ Len(frameLog) < MaxTwinFrames
    /\ renderPose(squatFrame(a), now + gap)
    /\ twin' = twinStep(twin, a, now + gap, calibration.squats)
    /\ frameLog' = Append(frameLog, [t |-> now + gap, angle |-> a])
    /\ UNCHANGED << script, userOps, quality, lastRep, session, planVars, barVars, pumpVars >>

NextTwin == \E a \in TwinAngles, gap \in TwinGaps : TwinFrame(a, gap)

SpecTwin == InitTwin /\ [][NextTwin]_vars

OffsetGap == (111..114) \cup (130..131) \cup (154..157) \cup (165..167)

----------------------------------------------------------------------------
(* Guided plans (session-tracking version of PoseRepCounter) *)

MaxPlanFrames == 5

MaxPlanTicks == 3

MaxPlanOps == 2

\* Time between two frames of a plan session.
PlanGaps == {450}

\* Wall-clock time between two observed plan ticks. The interval fires every
\* 200 ms; the ticks in between leave every rest comparison as it was.
TickGaps == {15000}

\* WorkoutStep values.
WorkStep(ex, n) == [kind |-> "work_reps", exercise |-> ex, targetReps |-> n, restSec |-> 0]

RestStep(sec) == [kind |-> "rest", exercise |-> "none", targetReps |-> 0, restSec |-> sec]

\* A WorkoutPlan value whose last step is a rest. The type admits it; neither
\* plan the component ships ends this way.
restLastPlan == << WorkStep("jumping_jacks", 1), RestStep(30) >>

\* workoutPlans: the first three steps of each shipped plan, rep targets scaled
\* down (30, 40, 20 and 16 in the source), and restLastPlan next to them. The
\* plan effect reads targetReps only to compare it with repCount - stepStartReps.
workoutPlans ==
    [starter_cardio |-> << WorkStep("jumping_jacks", 1), RestStep(30), WorkStep("high_knees", 2) >>,
     legs_builder |-> << WorkStep("squats", 1), RestStep(45), WorkStep("lunges", 1) >>,
     rest_last |-> restLastPlan]

\* One render of the component while a plan may be running, given the exercise of
\* the render before it: useEffect([exercise]) queues the reset of repState when
\* the exercise changed, and the plan effect, reading this render's repState,
\* selects the step's exercise and completes the step (work: repCount -
\* stepStartReps >= targetReps; rest: elapsed seconds >= restSec). Only the work
\* branch calls saveSession when the step is the last one.
planPass(exPrev, ex, rs, ps, hist, wallMs) ==
    LET steps == workoutPlans[ps.planId]
        hasStep == ps.active /\ ps.stepIndex < Len(steps)
        step == steps[ps.stepIndex + 1]
        isLast == ps.stepIndex + 1 >= Len(steps)
        workDone == /\ hasStep
                    /\ step.kind = "work_reps"
                    /\ rs.repCount - ps.stepStartReps >= step.targetReps
        restDone == /\ hasStep
                    /\ step.kind = "rest"
                    /\ wallMs - ps.stepStartedAt >= 1000 * step.restSec
    IN  [exercise |-> IF hasStep /\ step.kind = "work_reps" THEN step.exercise ELSE ex,
         repState |-> IF ex # exPrev THEN exerciseReset(rs, ex) ELSE rs,
         planState |-> IF (workDone \/ restDone) /\ isLast THEN [ps EXCEPT !.active = FALSE]
                       ELSE IF workDone \/ restDone
                       THEN [ps EXCEPT !.stepIndex = @ + 1, !.stepStartedAt = wallMs,
                                       !.stepStartReps = rs.repCount]
                       ELSE ps,
         history |-> IF workDone /\ isLast
                     THEN appendSession([mode |-> "plan", planId |-> ps.planId], hist,
                                        defaultMaxSessions)
                     ELSE hist]

\* The renders that follow a state change, until no effect changes state any more.
RECURSIVE planSettle(_, _, _, _, _, _)
planSettle(exPrev, ex, rs, ps, hist, wallMs) ==
    LET r == planPass(exPrev, ex, rs, ps, hist, wallMs)
    IN  IF ex = exPrev /\ r.exercise = ex /\ r.planState = ps /\ r.history = hist THEN r
        ELSE planSettle(ex, r.exercise, r.repState, r.planState, r.history, wallMs)

\* The step of planState ps (activePlanStep); ps.stepIndex is within the plan.
planStep(ps) == workoutPlans[ps.planId][ps.stepIndex + 1]

\* A work step became active between planState old and planState new.
enteredWork(old, new) ==
    /\ new.active
    /\ ~old.active \/ new.stepIndex # old.stepIndex \/ new.planId # old.planId
    /\ planStep(new).kind = "work_reps"

\* A handler left repState rs, planState ps and events evts at wall-clock time
\* wallMs: the effects run, and an exercise change clears the events and re-arms
\* hands-free calibration as SelectExercise does. stepReps follows the count.
planCommit(rs, ps, evts, wallMs) ==
    LET r == planSettle(exercise, exercise, rs, ps, history, wallMs)
        counted == /\ rs.repCount > repState.repCount
                   /\ planState.active
                   /\ planStep(planState).kind = "work_reps"
                   /\ planStep(planState).exercise = exercise
    IN  /\ exercise' = r.exercise
        /\ repState' = r.repState
        /\ planState' = r.planState
        /\ history' = r.history
        /\ events' = IF r.exercise # exercise THEN << >> ELSE evts
        /\ autoCalib' = IF r.exercise # exercise
                        THEN autoCalibReset(autoCalib, r.exercise, calibration)
                        ELSE autoCalib
        /\ stepReps' = IF enteredWork(planState, r.planState) THEN 0
                       ELSE IF counted THEN stepReps + 1
                       ELSE stepReps

InitPlan ==
    /\ exercise = "jumping_jacks"
    /\ sessionRunning = TRUE
    /\ calibration = EmptyCalibration
    /\ repState = InitialRepState("jumping_jacks")
    /\ autoCalib = autoCalibReset(mountAutoCalib, "jumping_jacks", EmptyCalibration)
    /\ manualCalibOpen = FALSE
    /\ manualCalibStep = 0
    /\ events = << >>
    /\ lastLandmarks = NoLandmarks
    /\ now = 0
    /\ lastOp = "init"
    /\ script = "plan"
    /\ frameLog = << >>
    /\ userOps = 0
    /\ ExtInit

\* The Start plan onClick with a plan chosen in the plan <select>.
StartPlan(id) ==
    /\ script = "plan"
    /\ userOps < MaxPlanOps
    /\ ~planState.active
    /\ planCommit(repState,
                  [active |-> TRUE, planId |-> id, stepIndex |-> 0,
                   stepStartedAt |-> planNowMs, stepStartReps |-> repState.repCount],
                  events, planNowMs)
    /\ resetFreeSession
    /\ lastOp' = "start_plan"
    /\ userOps' = userOps + 1
    /\ UNCHANGED << sessionRunning, calibration, manualCalibOpen, manualCalibStep,
                    lastLandmarks, now, script, frameLog, lastRep, twin, planNowMs,
                    barVars, pumpVars >>

\* The Start plan button while a plan runs: it stops the plan.
StopPlan ==
    /\ script = "plan"
    /\ userOps < MaxPlanOps
    /\ planState.active
    /\ planState' = [planState EXCEPT !.active = FALSE]
    /\ lastOp' = "stop_plan"
    /\ userOps' = userOps + 1
    /\ UNCHANGED << exercise, sessionRunning, calibration, repState, autoCalib,
                    manualCalibOpen, manualCalibStep, events, lastLandmarks, now,
                    script, frameLog, quality, lastRep, session, twin, planNowMs, stepReps,
                    history, barVars, pumpVars >>

\* The plan interval: setPlanNowMs(Date.now()).
PlanTick(gap) ==
    /\ script = "plan"
    /\ planState.active
    /\ planNowMs < MaxPlanTicks * gap
    /\ planNowMs' = planNowMs + gap
    /\ planCommit(repState, planState, events, planNowMs + gap)
    /\ lastOp' = "tick"
    /\ UNCHANGED << sessionRunning, calibration, manualCalibOpen, manualCalibStep,
                    lastLandmarks, now, script, frameLog, userOps, quality, lastRep, session,
                    twin, barVars, pumpVars >>

\* render() on a pose frame during a plan session (the hands-free calibration
\* block of render() is off, see renderPose), with the effects of the new count.
PlanPoseFrame(lm, gap) ==
    LET rs == classifyFrame(repState, exercise, sessionRunning, calibration, lm, now + gap)
    IN  /\ script = "plan"
        /\ now < MaxPlanFrames * gap
        /\ now' = now + gap
        /\ lastLandmarks' = lm
        /\ planCommit(rs, planState, decisionEffect(events, repState, rs), planNowMs)
        /\ lastOp' = "pose"
        /\ UNCHANGED << sessionRunning, calibration, manualCalibOpen, manualCalibStep,
                        script, frameLog, userOps, quality, lastRep, session, twin, planNowMs,
                        barVars, pumpVars >>

NextPlan ==
    \/ \E id \in DOMAIN workoutPlans : StartPlan(id)
    \/ StopPlan
    \/ \E gap \in TickGaps : PlanTick(gap)
    \/ \E lm \in FramesFor(exercise), gap \in PlanGaps : PlanPoseFrame(lm, gap)

SpecPlan == InitPlan /\ [][NextPlan]_vars

\* A work step is the active step of a running plan.
WorkStepActive ==
    /\ planState.active
    /\ planState.stepIndex < Len(workoutPlans[planState.planId])
    /\ planStep(planState).kind = "work_reps"

\* This step of the program completes the active step: the plan moves to its
\* next step or, at the last step, ends (stopping the plan is not completing it).
StepCompleted ==
    /\ lastOp' # "stop_plan"
    /\ ~planState'.active \/ planState'.stepIndex # planState.stepIndex

\* C17: in a guided plan a work_reps step completes exactly when targetReps reps
\* of the step's exercise have been counted since the step became active, whatever
\* the rep count was when the step or the plan started, and also when starting
\* the step switches the active exercise.
C17_WorkStepCompletesAtTarget ==
    [][WorkStepActive =>
          (StepCompleted <=> stepReps' >= planStep(planState).targetReps)]_vars

----------------------------------------------------------------------------
(* Bar reference (bar-reference version of PoseRepCounter)                  *)
(*                                                                         *)
(* A frame of a bar exercise is modelled by what updateBarExerciseState     *)
(* reads: vis, the visibility of the mouth, wrist, shoulder and elbow       *)
(* landmarks (hundredths); mouthY and wristsY, normalised heights           *)
(* (thousandths, 0 at the top of the frame); elbowAngle, degrees.           *)

MaxBarOps == 5

MaxBarFrames == 2

\* Time between two frames of a bar session.
BarGaps == {500}

\* The points (x, y) of the clicks on the video, thousandths of its width and
\* height: two points around the bar, and the top edge.
ClickPoints == {<< 700, 280 >>, << 200, 320 >>, << 500, 0 >>}

BarExercises == {"pull_ups", "chin_ups"}

\* The exercises the <select> of a bar session moves between.
BarSessionExercises == {"jumping_jacks", "pull_ups", "chin_ups"}

needsBar(ex) == ex \in BarExercises

BarPose(v, m, w, e) == [vis |-> v, mouthY |-> m, wristsY |-> w, elbowAngle |-> e]

\* Hanging at full extension, chin over the bar, hands off the bar, and a
\* hanging frame whose landmarks are not confident.
BarPoses ==
    {BarPose(60, 420, 300, 175), BarPose(60, 250, 300, 70),
     BarPose(60, 420, 600, 175), BarPose(30, 420, 300, 175)}

clamp(x, lo, hi) == Min(hi, Max(lo, x))

RECURSIVE sortAscending(_)
sortAscending(values) ==
    IF values = << >> THEN << >>
    ELSE LET i == CHOOSE k \in 1..Len(values) : \A j \in 1..Len(values) : values[k] <= values[j]
         IN  << values[i] >> \o
             sortAscending(SubSeq(values, 1, i - 1) \o SubSeq(values, i + 1, Len(values)))

\* median(values); the mean of the two middle samples is rounded down to a
\* thousandth.
median(values) ==
    LET sorted == sortAscending(values)
        mid == Len(values) \div 2
    IN  IF Len(values) = 0 THEN 0
        ELSE IF Len(values) % 2 = 1 THEN sorted[mid + 1]
        ELSE (sorted[mid] + sorted[mid + 1]) \div 2

\* updateBarExerciseState(prev, landmarks, nowMs, bar, label).
updateBarExerciseState(prev, p, nowMs, bar) ==
    IF ~bar.set
    THEN [prev EXCEPT !.phase = "unknown", !.feedback = Feedback("set_bar_line", 0, 0, "none")]
    ELSE IF ~isLandmarkConfident(p.vis, 35)
    THEN [prev EXCEPT !.phase = "unknown", !.feedback = Feedback("face_arms_visible", 0, 0, "none")]
    ELSE
    LET wristNearBar == Abs(p.wristsY - bar.y) < 120
        chinAboveBar == IF prev.phase = "up" THEN p.mouthY < bar.y - 5
                        ELSE p.mouthY < bar.y - 15
        elbowsExtended == IF prev.phase = "down" THEN p.elbowAngle > 155
                          ELSE p.elbowAngle > 165
        canSwitch == nowMs - prev.lastPhaseChangeMs > 200
        nextPhase == IF prev.phase = "unknown" THEN (IF chinAboveBar THEN "up" ELSE "down")
                     ELSE IF canSwitch /\ prev.phase = "down" /\ chinAboveBar /\ wristNearBar
                     THEN "up"
                     ELSE IF canSwitch /\ prev.phase = "up" /\ elbowsExtended /\ wristNearBar
                     THEN "down"
                     ELSE prev.phase
        feedback == IF ~wristNearBar THEN Feedback("hands_on_bar", 0, 0, "none")
                    ELSE IF chinAboveBar THEN Feedback("top_reached", 0, 0, "none")
                    ELSE IF ~elbowsExtended THEN Feedback("full_extension", 0, 0, "none")
                    ELSE Feedback("pull", 0, 0, "none")
        reached == prev.reachedTarget \/ nextPhase = "up"
        counts == /\ prev.phase = "up"
                  /\ nextPhase = "down"
                  /\ reached
                  /\ elbowsExtended
                  /\ wristNearBar
                  /\ nowMs - prev.lastRepMs > 900
    IN  [prev EXCEPT !.repCount = IF counts THEN @ + 1 ELSE @,
                     !.phase = nextPhase,
                     !.lastPhaseChangeMs = IF nextPhase # prev.phase THEN nowMs ELSE @,
                     !.lastRepMs = IF counts THEN nowMs ELSE @,
                     !.reachedTarget = IF counts THEN FALSE ELSE reached,
                     !.feedback = feedback]

\* useEffect([barLine, needsBar]): once a line is set for a bar exercise the
\* "set the bar" message goes away and an unknown phase becomes down.
barLineEffect(s, ex, line) ==
    IF needsBar(ex) /\ line.set
    THEN [s EXCEPT !.feedback = NoFeedback, !.phase = IF @ = "unknown" THEN "down" ELSE @]
    ELSE s

\* The bar state of the component.
barState == [barLine |-> barLine, barDraft |-> barDraft, barAuto |-> barAuto,
             samples |-> barAutoSamples]

\* The bar part of the exercise effects, clearing the line as well.
exerciseBarEffectClearsLine(b) ==
    [b EXCEPT !.barLine = NoBarLine, !.barDraft = NoBarDraft, !.barAuto = idleBarAuto,
              !.samples = << >>]

\* The bar part of useEffect([exercise]) and useEffect([needsBar]): the draft point
\* and the auto-sampling state are dropped; neither effect calls setBarLine.
exerciseBarEffect(b) ==
    [b EXCEPT !.barDraft = NoBarDraft, !.barAuto = idleBarAuto, !.samples = << >>]

InitBar ==
    /\ exercise = "jumping_jacks"
    /\ sessionRunning = TRUE
    /\ calibration = EmptyCalibration
    /\ repState = InitialRepState("jumping_jacks")
    /\ autoCalib = mountAutoCalib
    /\ manualCalibOpen = FALSE
    /\ manualCalibStep = 0
    /\ events = << >>
    /\ lastLandmarks = NoLandmarks
    /\ now = 0
    /\ lastOp = "init"
    /\ script = "bar"
    /\ frameLog = << >>
    /\ userOps = 0
    /\ ExtInit

\* The variables a bar session leaves alone.
barIdle == << sessionRunning, calibration, autoCalib, manualCalibOpen, manualCalibStep,
              events, lastLandmarks, script, quality, lastRep, session, twin, planVars, pumpVars >>

\* The exercise <select> onChange with the effects of the change: repState is
\* reset, the bar effects run, the line effect runs when needsBar changed, and the
\* pose effect (dependency list [exercise]) starts a render() that closes over the
\* barLine and barAuto of the render in which the exercise changed.
SelectBarExercise(ex) ==
    LET b == exerciseBarEffect(barState)
        reset == exerciseReset(repState, ex)
    IN  /\ script = "bar"
        /\ userOps < MaxBarOps
        /\ ex # exercise
        /\ exercise' = ex
        /\ repState' = IF needsBar(ex) # needsBar(exercise)
                       THEN barLineEffect(reset, ex, b.barLine)
                       ELSE reset
        /\ barLine' = b.barLine
        /\ barDraft' = b.barDraft
        /\ barAuto' = b.barAuto
        /\ barAutoSamples' = b.samples
        /\ loop' = [barLine |-> barLine, barAuto |-> barAuto]
        /\ lastOp' = "select"
        /\ userOps' = userOps + 1
        /\ UNCHANGED << now, frameLog, lastClick, barIdle >>

\* The line of the second click without the clamp of its height.
manualBarLineUnclamped(draft, x, y) ==
    [set |-> TRUE, y |-> (draft.y + y) \div 2,
     x1 |-> Min(clamp(draft.x, 0, 1000), clamp(x, 0, 1000)),
     x2 |-> Max(clamp(draft.x, 0, 1000), clamp(x, 0, 1000))]

\* The line the second click at (x, y) sets: lineY, x1 and x2 of the onClick.
manualBarLine(draft, x, y) ==
    [set |-> TRUE, y |-> clamp((draft.y + y) \div 2, 20, 980),
     x1 |-> Min(clamp(draft.x, 0, 1000), clamp(x, 0, 1000)),
     x2 |-> Max(clamp(draft.x, 0, 1000), clamp(x, 0, 1000))]

\* The onClick of the video container at the point pt: sampling in progress is
\* cancelled; the first click records the draft point, the second sets the line
\* between the two points.
ClickVideo(pt) ==
    LET x == clamp(pt[1], 0, 1000)
        y == clamp(pt[2], 0, 1000)
        line == manualBarLine(barDraft, x, y)
    IN  /\ script = "bar"
        /\ userOps < MaxBarOps
        /\ needsBar(exercise)
        /\ barAuto' = IF barAuto.status = "sampling" THEN idleBarAuto ELSE barAuto
        /\ barAutoSamples' = IF barAuto.status = "sampling" THEN << >> ELSE barAutoSamples
        /\ IF ~barDraft.set
           THEN /\ barDraft' = [set |-> TRUE, x |-> x, y |-> y]
                /\ UNCHANGED << barLine, repState >>
           ELSE /\ barLine' = line
                /\ barDraft' = NoBarDraft
                /\ repState' = IF line # barLine THEN barLineEffect(repState, exercise, line)
                               ELSE repState
        /\ lastClick' = pt
        /\ lastOp' = "click"
        /\ userOps' = userOps + 1
        /\ UNCHANGED << exercise, now, frameLog, loop, barIdle >>

\* The Clear bar onClick.
ClearBar ==
    /\ script = "bar"
    /\ userOps < MaxBarOps
    /\ needsBar(exercise)
    /\ barLine' = NoBarLine
    /\ barDraft' = NoBarDraft
    /\ barAuto' = idleBarAuto
    /\ barAutoSamples' = << >>
    /\ lastOp' = "clear_bar"
    /\ userOps' = userOps + 1
    /\ UNCHANGED << exercise, repState, now, frameLog, loop, lastClick, barIdle >>

\* The Auto bar onClick.
AutoBar ==
    /\ script = "bar"
    /\ userOps < MaxBarOps
    /\ needsBar(exercise)
    /\ barDraft' = NoBarDraft
    /\ barAutoSamples' = << >>
    /\ barAuto' = [status |-> "sampling", startedMs |-> now]
    /\ lastOp' = "auto_bar"
    /\ userOps' = userOps + 1
    /\ UNCHANGED << exercise, repState, barLine, now, frameLog, loop, lastClick, barIdle >>

\* The line auto sampling sets from its samples.
autoBarLine(samples) ==
    [set |-> TRUE, y |-> clamp(median(samples) - 20, 20, 980), x1 |-> 50, x2 |-> 950]

\* render() on a pose frame of a bar exercise. The auto-sampling block and the
\* classifier read the barAuto and barLine the closure captured.
BarPoseFrame(p, gap) ==
    LET nowMs == now + gap
        sampling == loop.barAuto.status = "sampling"
        samples == IF sampling /\ isLandmarkConfident(p.vis, 35)
                   THEN Append(barAutoSamples, p.wristsY)
                   ELSE barAutoSamples
        windowOver == sampling /\ nowMs - loop.barAuto.startedMs > 900
        located == windowOver /\ Len(samples) >= 10
        line == IF located THEN autoBarLine(samples) ELSE barLine
        classified == updateBarExerciseState(repState, p, nowMs, loop.barLine)
    IN  /\ script = "bar"
        /\ needsBar(exercise)
        /\ Len(frameLog) < MaxBarFrames
        /\ now' = nowMs
        /\ barAutoSamples' = IF windowOver THEN << >> ELSE samples
        /\ barAuto' = IF located THEN [status |-> "done", startedMs |-> 0]
                      ELSE IF windowOver THEN idleBarAuto
                      ELSE IF sampling
                      THEN [status |-> "sampling", startedMs |-> loop.barAuto.startedMs]
                      ELSE barAuto
        /\ barLine' = line
        /\ repState' = IF line # barLine THEN barLineEffect(classified, exercise, line)
                       ELSE classified
        /\ frameLog' = Append(frameLog, [t |-> nowMs, pose |-> p])
        /\ lastOp' = "bar_pose"
        /\ UNCHANGED << exercise, barDraft, loop, lastClick, userOps, barIdle >>

\* render() on a frame without a pose.
BarNoPose(gap) ==
    /\ script = "bar"
    /\ needsBar(exercise)
    /\ Len(frameLog) < MaxBarFrames
    /\ now' = now + gap
    /\ repState' = [repState EXCEPT !.phase = "unknown", !.feedback = NoFeedback]
    /\ frameLog' = Append(frameLog, [t |-> now + gap, pose |-> BarPose(0, 0, 0, 0)])
    /\ lastOp' = "nopose"
    /\ UNCHANGED << exercise, barVars, userOps, barIdle >>

NextBar ==
    \/ \E ex \in BarSessionExercises : SelectBarExercise(ex)
    \/ \E pt \in ClickPoints : ClickVideo(pt)
    \/ ClearBar
    \/ AutoBar
    \/ \E p \in BarPoses, gap \in BarGaps : BarPoseFrame(p, gap)
    \/ \E gap \in BarGaps : BarNoPose(gap)

SpecBar == InitBar /\ [][NextBar]_vars

\* C19: while no bar reference is set, the pull-up/chin-up classifier forces the
\* phase to unknown on every frame and never changes repCount, reachedTarget or
\* lastRepMs.
C19_UnsetBarForcesUnknown ==
    [][(needsBar(exercise) /\ ~barLine.set /\ ~barLine'.set /\ lastOp' = "bar_pose"
        /\ now' # now) =>
          /\ repState'.phase = "unknown"
          /\ repState'.repCount = repState.repCount
          /\ repState'.reachedTarget = repState.reachedTarget
          /\ repState'.lastRepMs = repState.lastRepMs]_vars

\* This step deselects a bar exercise for one that needs no bar.
DeselectsBarExercise == needsBar(exercise) /\ ~needsBar(exercise')

\* C20 as stated: after switching from pull-ups or chin-ups to any other exercise
\* the reference line is unset, so re-selecting a bar exercise starts with no
\* reference.
C20_DeselectClearsBar == [][DeselectsBarExercise => ~barLine'.set]_vars

\* C20, amended: switching from pull-ups or chin-ups to another exercise drops the
\* draft point and the auto-sampling state and keeps the reference line as it
\* was; only Clear bar unsets the line.
C20_DeselectKeepsLineClearUnsets ==
    [][/\ DeselectsBarExercise =>
             (barLine' = barLine /\ barDraft' = NoBarDraft /\ barAuto' = idleBarAuto)
       /\ (lastOp' = "clear_bar" /\ userOps' # userOps) => ~barLine'.set]_vars

\* A bar exercise has been re-selected after another exercise and starts with the
\* line set before: the line effect has already turned the phase to down.
C20_Witness ==
    /\ lastOp = "select"
    /\ needsBar(exercise)
    /\ barLine.set
    /\ repState.phase = "down"

\* The frame render() classified last.
barFrame == frameLog[Len(frameLog)].pose

\* C26: repCount of a bar exercise increments only on an up-to-down transition,
\* taken on a frame whose wrists are near the reference line and whose elbows are
\* extended, after the up phase was reached, more than 900 ms after the rep
\* counted last.
C26_BarRepOnlyOnFullDescent ==
    [][(needsBar(exercise) /\ repState'.repCount > repState.repCount) =>
          /\ lastOp' = "bar_pose" /\ now' # now
          /\ repState.phase = "up" /\ repState'.phase = "down"
          /\ repState.reachedTarget
          /\ barLine.set
          /\ Abs(barFrame'.wristsY - barLine.y) < 120
          /\ barFrame'.elbowAngle > 165
          /\ now' - repState.lastRepMs > 900]_vars

\* This step is a click on the video.
ClickStep == lastOp' = "click" /\ userOps' # userOps

\* C27: the first click of the manual bar setup records the draft point and
\* leaves the reference line as it was; the second click sets a horizontal line
\* at the mean height of the two points, clamped to [0.02, 0.98], reaching from
\* the smaller to the larger of their x values, and drops the draft.
C27_ManualBarSetup ==
    [][ClickStep =>
          IF ~barDraft.set
          THEN /\ barDraft' = [set |-> TRUE, x |-> lastClick'[1], y |-> lastClick'[2]]
               /\ barLine' = barLine
          ELSE /\ barLine'.set
               /\ barLine'.y = Min(980, Max(20, (barDraft.y + lastClick'[2]) \div 2))
               /\ barLine'.x1 = Min(barDraft.x, lastClick'[1])
               /\ barLine'.x2 = Max(barDraft.x, lastClick'[1])
               /\ ~barDraft'.set]_vars

\* The second click, left of the first and below it, has set the line between
\* the two points.
C27_Witness ==
    /\ lastOp = "click"
    /\ lastClick = << 200, 320 >>
    /\ barLine = [set |-> TRUE, y |-> 300, x1 |-> 200, x2 |-> 700]
    /\ ~barDraft.set

\* The confident wrist samples at the end of this frame: those collected so far
\* and the one of this frame.
samplesWithFrame ==
    IF isLandmarkConfident(barFrame'.vis, 35)
    THEN Append(barAutoSamples, barFrame'.wristsY)
    ELSE barAutoSamples

\* C28: on the frame that ends the sampling window (more than 900 ms after auto
\* bar setup started), at least 10 confident wrist samples set the reference line
\* at their median height minus the offset and the state becomes done; fewer than
\* 10 abort sampling to idle and no bar reference is set afterwards.
C28_AutoBarWindowEnd ==
    [][(/\ needsBar(exercise)
        /\ lastOp' = "bar_pose" /\ now' # now
        /\ barAuto.status = "sampling"
        /\ now' - barAuto.startedMs > 900) =>
          IF Len(samplesWithFrame) >= 10
          THEN /\ barLine' = autoBarLine(samplesWithFrame)
               /\ barAuto'.status = "done"
          ELSE /\ barAuto'.status = "idle"
               /\ ~barLine'.set]_vars

----------------------------------------------------------------------------
(* Knee-angle classifiers on a constant knee angle *)

MaxConstantFrames == 4

\* Time between two frames of a constant-angle stream.
ConstantGaps == {250}

HingeExercises == {"squats", "lunges", "jump_squats"}

\* Knee angles of the frames a capture is taken on.
CaptureAngles == {100, 150, 175}

\* Knee angles held during a stream.
ConstantAngles == {100, 120, 133, 150, 170, 175}

\* The calibration values a capture can have stored for exercise ex: none, one
\* step captured (the other at its default), or both steps captured.
HingeProfiles(ex) ==
    {EmptyCalibration}
    \cup {captureCalibrationFrame(EmptyCalibration, ex, squatFrame(a), step) :
             a \in CaptureAngles, step \in {0, 1}}
    \cup {captureCalibrationFrame(
              captureCalibrationFrame(EmptyCalibration, ex, squatFrame(a), 0),
              ex, squatFrame(b), 1) : a \in CaptureAngles, b \in CaptureAngles}

InitConstant ==
    /\ exercise \in HingeExercises
    /\ sessionRunning = TRUE
    /\ calibration \in HingeProfiles(exercise)
    /\ repState = InitialRepState(exercise)
    /\ autoCalib = autoCalibReset(mountAutoCalib, exercise, calibration)
    /\ manualCalibOpen = FALSE
    /\ manualCalibStep = 0
    /\ events = << >>
    /\ lastLandmarks = NoLandmarks
    /\ now = 0
    /\ lastOp = "init"
    /\ script = "constant"
    /\ frameLog = << >>
    /\ userOps = 0
    /\ ExtInit

\* render() on a frame with the knee angle a of the frame before it.
ConstantFrame(a, gap) ==
    /\ script = "constant"
    /\ Len(frameLog) < MaxConstantFrames
    /\ lastLandmarks = NoLandmarks \/ lastLandmarks = squatFrame(a)
    /\ renderPose(squatFrame(a), now + gap)
    /\ frameLog' = Append(frameLog, [t |-> now + gap, angle |-> a])
    /\ UNCHANGED << script, userOps, extVars >>

NextConstant == \E a \in ConstantAngles, gap \in ConstantGaps : ConstantFrame(a, gap)

SpecConstant == InitConstant /\ [][NextConstant]_vars

\* C21: for squats, lunges and jump squats, under the default thresholds and
\* under every calibration profile a capture can store, a frame stream with a
\* constant knee angle changes the phase only once, out of unknown, and produces
\* no rep and no reject decision.
C21_ConstantAngleNeverOscillates ==
    [][(repState.phase # "unknown" /\ now' # now) =>
          /\ repState'.phase = repState.phase
          /\ repState'.repCount = repState.repCount
          /\ repState'.decisionId = repState.decisionId]_vars

----------------------------------------------------------------------------
(* Visibility gaps inside a frame sequence *)

MaxGapFrames == 4

\* Time between two frames of the sequence.
GapGaps == {300, 450}

\* One exercise of the open/close family and the knee-angle family.
GapExercises == {"jumping_jacks", "squats", "lunges", "jump_squats"}

\* The session runs on a frame sequence with frames inserted that fail the
\* classifier's confidence gate; twin is the repState of the run on the same
\* sequence without the inserted frames.
InitGap ==
    /\ exercise \in GapExercises
    /\ sessionRunning = TRUE
    /\ calibration = EmptyCalibration
    /\ repState = InitialRepState(exercise)
    /\ autoCalib = autoCalibReset(mountAutoCalib, exercise, EmptyCalibration)
    /\ manualCalibOpen = FALSE
    /\ manualCalibStep = 0
    /\ events = << >>
    /\ lastLandmarks = NoLandmarks
    /\ now = 0
    /\ lastOp = "init"
    /\ script = "gap"
    /\ frameLog = << >>
    /\ userOps = 0
    /\ twin = InitialRepState(exercise)
    /\ SideInit

\* render() on a frame of the sequence, in both runs.
SequenceFrame(lm, gap) ==
    /\ script = "gap"
    /\ Len(frameLog) < MaxGapFrames
    /\ minVisible(exercise, lm)
    /\ renderPose(lm, now + gap)
    /\ twin' = classifyFrame(twin, exercise, sessionRunning, calibration, lm, now + gap)
    /\ frameLog' = Append(frameLog, [t |-> now + gap, inserted |-> FALSE])
    /\ UNCHANGED << script, userOps, quality, lastRep, session, planVars, barVars, pumpVars >>

\* render() on an inserted frame, which fails the gate: the run without the
\* inserted frames does not see it.
InsertedFrame(lm, gap) ==
    /\ script = "gap"
    /\ Len(frameLog) < MaxGapFrames
    /\ ~minVisible(exercise, lm)
    /\ renderPose(lm, now + gap)
    /\ frameLog' = Append(frameLog, [t |-> now + gap, inserted |-> TRUE])
    /\ UNCHANGED << script, userOps, extVars >>

NextGap ==
    \/ \E lm \in FramesFor(exercise), gap \in GapGaps : SequenceFrame(lm, gap)
    \/ \E lm \in FramesFor(exercise), gap \in GapGaps : InsertedFrame(lm, gap)

SpecGap == InitGap /\ [][NextGap]_vars

\* C22: for the knee-angle and the open/close families, inserting frames that
\* fail the confidence gate into a frame sequence, all other frames and their
\* timestamps unchanged, leaves the final repCount as it is without them.
C22_InsertedGapsKeepCount == repState.repCount = twin.repCount

----------------------------------------------------------------------------
(* High knees *)

\* High knees is the active exercise before and after the step.
HighKneesStep == exercise = "high_knees" /\ exercise' = "high_knees"

\* C23: high knees counts a rep only on a frame where exactly one knee is above
\* the lift threshold, the raised side differs from the side of the rep counted
\* before (or none was counted since the last reset) and more than 300 ms have
\* passed since that rep; lastSide and lastRepMs are the side and the time of the
\* rep counted last, so two reps counted in a row are on opposite sides.
C23_HighKneesCountsAlternateSides ==
    [][HighKneesStep =>
          /\ repState'.repCount > repState.repCount =>
                /\ lastOp' = "pose"
                /\ repState'.repCount = repState.repCount + 1
                /\ highKneesSideUp(lastLandmarks', calibration.high_knees) # "none"
                /\ \/ repState.lastSide = "none" /\ repState.repCount = 0
                   \/ repState.lastSide \notin {"none", highKneesSideUp(lastLandmarks', calibration.high_knees)}
                /\ now' - repState.lastRepMs > 300
                /\ repState'.lastSide = highKneesSideUp(lastLandmarks', calibration.high_knees)
                /\ repState'.lastRepMs = now'
          /\ (repState'.repCount = repState.repCount /\ repState.repCount > 0) =>
                /\ repState'.lastSide = repState.lastSide
                /\ repState'.lastRepMs = repState.lastRepMs]_vars

\* Two high-knees reps have been counted in a row, the second on this frame.
C23_Witness ==
    /\ repState.exercise = "high_knees"
    /\ repState.repCount = 2
    /\ repState.decisionKind = "rep"
    /\ repState.lastSide = "right"

----------------------------------------------------------------------------
(* Burpees *)

MaxBurpeeFrames == 4

\* Time between two frames of a burpee session.
BurpeeGaps == {150, 500}

\* Standing, the crouch, the plank (which is crouch-like too: hips low), standing
\* close to the camera with shoulders and hips low in the frame (stand-like and
\* plank-like), a half crouch that is none of the three, and a frame failing the
\* confidence gate.
BurpeePoses ==
    {StandPose, DeepSquatPose, PlankPose,
     Landmarks(60, 60, 175, 175, 100, 0 - 200, 0 - 200, 0 - 200, 53, 57),
     Landmarks(60, 60, 150, 150, 100, 0 - 200, 0 - 200, 0 - 200, 30, 60),
     withVis(PlankPose, 30)}

InitBurpee ==
    /\ exercise = "burpees"
    /\ sessionRunning = TRUE
    /\ calibration = EmptyCalibration
    /\ repState = InitialRepState("burpees")
    /\ autoCalib = autoCalibReset(mountAutoCalib, "burpees", EmptyCalibration)
    /\ manualCalibOpen = FALSE
    /\ manualCalibStep = 0
    /\ events = << >>
    /\ lastLandmarks = NoLandmarks
    /\ now = 0
    /\ lastOp = "init"
    /\ script = "burpee"
    /\ frameLog = << >>
    /\ userOps = 0
    /\ ExtInit

\* render() on a frame of a burpee session.
BurpeeFrame(lm, gap) ==
    /\ script = "burpee"
    /\ Len(frameLog) < MaxBurpeeFrames
    /\ renderPose(lm, now + gap)
    /\ frameLog' = Append(frameLog, [t |-> now + gap, pose |-> lm])
    /\ UNCHANGED << script, userOps, extVars >>

NextBurpee == \E lm \in BurpeePoses, gap \in BurpeeGaps : BurpeeFrame(lm, gap)

SpecBurpee == InitBurpee /\ [][NextBurpee]_vars

\* C24: a burpee that has visited the plank and then returns to stand, directly
\* or through the crouch, gets a rep decision on the transition to stand when
\* more than 950 ms have passed since the rep counted last (transitions out of a
\* known phase are the debounced ones).
C24_ReturnToStandCounts ==
    [][(/\ repState.reachedTarget
        /\ repState.phase \in {"open", "down"}
        /\ repState'.phase = "up"
        /\ now' - repState.lastRepMs > 950) =>
          /\ repState'.decisionKind = "rep"
          /\ repState'.repCount = repState.repCount + 1]_vars

\* This step classifies a confident frame and may select a phase: out of unknown,
\* or past the 220 ms debounce.
BurpeeSelects ==
    /\ now' # now
    /\ minVisible("burpees", lastLandmarks')
    /\ repState.phase = "unknown" \/ now' - repState.lastPhaseChangeMs > 220

\* More than one of the three predicates holds on the frame of this step.
BurpeeAmbiguous ==
    \/ plankLike(lastLandmarks') /\ crouchLike(lastLandmarks')
    \/ plankLike(lastLandmarks') /\ standLike(lastLandmarks')
    \/ crouchLike(lastLandmarks') /\ standLike(lastLandmarks')

\* C25 as stated: on every frame where more than one of the plank, crouch and
\* stand predicates holds the phase follows the precedence plank > crouch >
\* stand, for debounced transitions and for the first classification out of
\* unknown alike.
C25_PlankCrouchStandPrecedence ==
    [][(BurpeeSelects /\ BurpeeAmbiguous) =>
          repState'.phase = IF plankLike(lastLandmarks') THEN "open"
                            ELSE IF crouchLike(lastLandmarks') THEN "down"
                            ELSE "up"]_vars

\* C25, amended: on a frame where more than one predicate holds a debounced
\* transition follows the precedence plank > crouch > stand; the first
\* classification out of unknown tests stand first, then plank, and falls back
\* to crouch.
C25_PrecedenceExceptOutOfUnknown ==
    [][(BurpeeSelects /\ BurpeeAmbiguous) =>
          repState'.phase = IF repState.phase = "unknown"
                            THEN (IF standLike(lastLandmarks') THEN "up"
                                  ELSE IF plankLike(lastLandmarks') THEN "open"
                                  ELSE "down")
                            ELSE IF plankLike(lastLandmarks') THEN "open"
                            ELSE IF crouchLike(lastLandmarks') THEN "down"
                            ELSE "up"]_vars

\* A frame that is stand-like and plank-like has been classified out of unknown,
\* and a later frame that is plank-like and crouch-like past the debounce.
C25_Witness ==
    /\ Len(frameLog) = 2
    /\ standLike(frameLog[1].pose) /\ plankLike(frameLog[1].pose)
    /\ frameLog[2].t - frameLog[1].t > 220
    /\ plankLike(lastLandmarks) /\ crouchLike(lastLandmarks)
    /\ minVisible("burpees", lastLandmarks)
    /\ repState.phase = "open"

----------------------------------------------------------------------------
(* Calibration captures *)

MaxCaptureFrames == 2

\* Time between two frames of a calibration session.
CaptureGaps == {450}

\* The profiles an earlier session saved, one for every exercise that has one.
SavedCalibration ==
    [jumping_jacks |-> [has |-> TRUE, openAnkleRatio |-> 150, closedAnkleRatio |-> 110,
                        openArmsLift |-> 90, closedArmsLift |-> 10],
     squats |-> [has |-> TRUE, topKneeAngle |-> 170, bottomKneeAngle |-> 105],
     lunges |-> [has |-> TRUE, topKneeAngle |-> 168, bottomKneeAngle |-> 100],
     high_knees |-> [has |-> TRUE, upLift |-> 110, downLift |-> 10],
     jump_squats |-> [has |-> TRUE, topKneeAngle |-> 172, bottomKneeAngle |-> 95]]

\* The frames of a calibration session: the poses the steps ask for, a frame whose
\* arms are not confident, and a frame whose legs are not confident.
CapturePoses ==
    {StandPose, JackOpenPose, DeepSquatPose, LeftKneeUpPose,
     [StandPose EXCEPT !.visUpper = 30], withVis(DeepSquatPose, 30)}

\* A session on any exercise, with no stored profile or with the saved ones, the
\* manual calibration dialog closed or open at either step.
InitCapture ==
    /\ exercise \in ExerciseId
    /\ sessionRunning = TRUE
    /\ calibration \in {EmptyCalibration, SavedCalibration}
    /\ repState = InitialRepState(exercise)
    /\ autoCalib = autoCalibReset(mountAutoCalib, exercise, calibration)
    /\ manualCalibOpen \in BOOLEAN
    /\ manualCalibStep \in {0, 1}
    /\ events = << >>
    /\ lastLandmarks = NoLandmarks
    /\ now = 0
    /\ lastOp = "init"
    /\ script = "capture"
    /\ frameLog = << >>
    /\ userOps = 0
    /\ ExtInit

\* render() on a frame of a calibration session.
CaptureFrame(lm, gap) ==
    /\ script = "capture"
    /\ Len(frameLog) < MaxCaptureFrames
    /\ renderPose(lm, now + gap)
    /\ frameLog' = Append(frameLog, [t |-> now + gap, pose |-> lm])
    /\ UNCHANGED << script, userOps, extVars >>

NextCapture ==
    \/ \E lm \in CapturePoses, gap \in CaptureGaps : CaptureFrame(lm, gap)
    \/ \E ex \in ExerciseId : SelectExercise(ex)
    \/ OpenManualCalib
    \/ ManualCapture
    \/ CloseManualCalib
    \/ ToggleManualStep
    \/ ClearCalibration

SpecCapture == InitCapture /\ [][NextCapture]_vars

\* This step is a click on the capture button of the manual calibration dialog.
ManualCaptureStep == lastOp' = "capture" /\ userOps' # userOps

\* The frame in lastLandmarksRef passes the 0.35 confidence gate of the capture
\* for exercise ex.
captureFrameConfident(ex) ==
    /\ lastLandmarks.present
    /\ lastLandmarks.visLower >= 35
    /\ (ex = "jumping_jacks" => lastLandmarks.visUpper >= 35)

\* The fields of a profile that calibration step s captures.
stepFields(ex, s) ==
    IF ex = "jumping_jacks"
    THEN (IF s = 0 THEN {"closedAnkleRatio", "closedArmsLift"}
                   ELSE {"openAnkleRatio", "openArmsLift"})
    ELSE IF ex = "high_knees" THEN (IF s = 0 THEN {"downLift"} ELSE {"upLift"})
    ELSE (IF s = 0 THEN {"topKneeAngle"} ELSE {"bottomKneeAngle"})

\* The value of a profile field measured on the frame lm.
measuredField(lm, field) ==
    IF field \in {"topKneeAngle", "bottomKneeAngle"} THEN Min(lm.lKnee, lm.rKnee)
    ELSE IF field \in {"openAnkleRatio", "closedAnkleRatio"} THEN lm.ratio
    ELSE IF field \in {"openArmsLift", "closedArmsLift"} THEN lm.armsLift
    ELSE Max(lm.lLift, lm.rLift)

\* The default of a profile field of exercise ex.
defaultField(ex, field) ==
    IF field = "topKneeAngle" THEN 175
    ELSE IF field = "bottomKneeAngle" THEN (IF ex = "lunges" THEN 115 ELSE 110)
    ELSE IF field = "openAnkleRatio" THEN 145
    ELSE IF field = "closedAnkleRatio" THEN 115
    ELSE IF field = "openArmsLift" THEN 80
    ELSE IF field = "closedArmsLift" THEN 20
    ELSE IF field = "upLift" THEN 100
    ELSE 20

\* C29: a manual capture for step s on a confident frame overwrites the fields of
\* step s in the profile of the active exercise with the values measured on the
\* frame in lastLandmarksRef, and leaves the fields of the other step at their
\* prior value, or at the default of the exercise when it had no profile.
C29_ManualCaptureOverwritesOneStep ==
    [][(ManualCaptureStep /\ exercise # "burpees" /\ captureFrameConfident(exercise)) =>
          /\ calibration'[exercise].has
          /\ \A f \in stepFields(exercise, manualCalibStep) :
                calibration'[exercise][f] = measuredField(lastLandmarks, f)
          /\ \A f \in stepFields(exercise, 1 - manualCalibStep) :
                calibration'[exercise][f] =
                    IF calibration[exercise].has THEN calibration[exercise][f]
                    ELSE defaultField(exercise, f)]_vars

\* The second step of the squat profile has been captured on the deep squat over
\* the saved profile: the bottom angle is the measured one, the top angle the
\* saved one.
C29_Witness ==
    /\ lastOp = "capture"
    /\ exercise = "squats"
    /\ lastLandmarks = DeepSquatPose
    /\ calibration.squats = [has |-> TRUE, topKneeAngle |-> 170, bottomKneeAngle |-> 100]

\* C30: a capture, manual or by hands-free calibration in render(), changes only
\* the profile of the exercise active at the capture; a manual capture with no
\* frame, or with a frame failing the 0.35 confidence gate, changes no profile.
C30_CaptureChangesActiveProfileOnly ==
    [][/\ (lastOp' \in {"capture", "pose"} /\ (userOps' # userOps \/ now' # now)) =>
             \A ex \in DOMAIN calibration :
                 ex # exercise => calibration'[ex] = calibration[ex]
       /\ (ManualCaptureStep /\ ~captureFrameConfident(exercise)) =>
             calibration' = calibration]_vars

\* A lunge profile has been captured from nothing: no other exercise has one.
C30_Witness ==
    /\ lastOp = "capture"
    /\ exercise = "lunges"
    /\ calibration.lunges.has
    /\ calibration = [EmptyCalibration EXCEPT !.lunges = calibration.lunges]

----------------------------------------------------------------------------
(* Hands-free calibration after a switch or a clear *)

\* This step changes the active exercise or clears its profile.
SwitchOrClearStep == lastOp' \in {"select", "clear"} /\ userOps' # userOps

\* C31: switching the active exercise or clearing its calibration leaves
\* hands-free calibration at step 0 with no stable time accumulated, sampling
\* exactly when the exercise now active has no profile; burpees never sample.
C31_SwitchOrClearRestartsHandsFree ==
    [][SwitchOrClearStep =>
          /\ autoCalib'.step = 0
          /\ autoCalib'.stableMs = 0
          /\ autoCalib'.active = (exercise' # "burpees" /\ ~calibration'[exercise'].has)]_vars

\* The squat profile of a session with saved profiles has been cleared: sampling
\* has started for squats.
C31_Witness ==
    /\ lastOp = "clear"
    /\ exercise = "squats"
    /\ ~calibration.squats.has
    /\ calibration.lunges.has
    /\ autoCalib.active
    /\ autoCalib.step = 0

----------------------------------------------------------------------------
(* Front of the render loop (session-tracking version): frame clock,         *)
(* duplicate frames, smoothing, tracking health                              *)
(*                                                                         *)
(* A video frame is modelled by vis, the visibility (hundredths) of the      *)
(* shoulders and hips (upper), knees, ankles, wrists and nose, and by raw,   *)
(* the landmark list of the detector: x, y, z in 1/1024 of the frame, zNum   *)
(* for typeof z === "number", and the visibility.                            *)

MaxPumpFrames == 3

\* Time between two render() calls.
PumpGaps == {16, 450}

PumpExercises == {"jumping_jacks", "squats", "burpees"}

GroupVis(u, k, a, w, n) == [upper |-> u, knee |-> k, ankle |-> a, wrist |-> w, nose |-> n]

RawLandmark(x, y, z, zn, v) == [x |-> x, y |-> y, z |-> z, zNum |-> zn, visibility |-> v]

VideoFrame(vis, raw) == [pose |-> TRUE, vis |-> vis, raw |-> raw]

\* A frame in which the detector finds no pose.
EmptyFrame == [pose |-> FALSE, vis |-> GroupVis(0, 0, 0, 0, 0), raw |-> << >>]

\* The frames of a session: everything visible; the upper body, the knees, the
\* ankles, the wrists or the nose alone below its threshold; two groups below;
\* with landmark lists of one and of two landmarks, with and without a numeric z.
VideoFrames ==
    {VideoFrame(GroupVis(60, 60, 60, 60, 60), << RawLandmark(0, 0, 256, TRUE, 60) >>),
     VideoFrame(GroupVis(60, 60, 30, 30, 30), << RawLandmark(256, 512, 0, TRUE, 90) >>),
     VideoFrame(GroupVis(30, 60, 60, 60, 60), << RawLandmark(512, 256, 0, FALSE, 30) >>),
     VideoFrame(GroupVis(60, 30, 60, 60, 60),
                << RawLandmark(256, 512, 512, TRUE, 60), RawLandmark(512, 0, 0, TRUE, 20) >>),
     VideoFrame(GroupVis(60, 60, 20, 60, 60), << RawLandmark(512, 512, 512, TRUE, 45) >>),
     VideoFrame(GroupVis(60, 60, 60, 20, 60),
                << RawLandmark(0, 256, 0, TRUE, 70), RawLandmark(0, 512, 256, FALSE, 80) >>),
     VideoFrame(GroupVis(60, 60, 60, 60, 20), << RawLandmark(256, 0, 512, TRUE, 10) >>),
     VideoFrame(GroupVis(60, 60, 60, 20, 20), << RawLandmark(0, 512, 256, TRUE, 60) >>),
     VideoFrame(GroupVis(30, 30, 60, 60, 60), << RawLandmark(512, 0, 256, FALSE, 60) >>)}

\* The groups computeTrackingHealth finds missing.
missingGroups(ex, vis) ==
    LET upperOk == isLandmarkConfident(vis.upper, 35)
        lowerOk == isLandmarkConfident(vis.knee, 35) /\ isLandmarkConfident(vis.ankle, 25)
        armsOk == IF ex \in {"jumping_jacks", "burpees"}
                  THEN isLandmarkConfident(vis.wrist, 25) ELSE TRUE
        headOk == IF ex = "jumping_jacks" THEN isLandmarkConfident(vis.nose, 25) ELSE TRUE
    IN  (IF upperOk THEN {} ELSE {"upper"}) \cup (IF lowerOk THEN {} ELSE {"lower"})
        \cup (IF armsOk THEN {} ELSE {"arms"}) \cup (IF headOk THEN {} ELSE {"head"})

\* computeTrackingHealth naming the arms whenever neither body half is missing.
computeTrackingHealthArmsElse(ex, f, fps) ==
    IF ~f.pose
    THEN [level |-> "lost", fps |-> fps, hint |-> "no_pose", missing |-> {"upper", "lower"}]
    ELSE LET missing == missingGroups(ex, f.vis)
         IN  IF missing = {}
             THEN [level |-> "good", fps |-> fps, hint |-> "good", missing |-> missing]
             ELSE [level |-> IF Cardinality(missing) >= 2 THEN "lost" ELSE "partial",
                   fps |-> fps,
                   hint |-> IF "lower" \in missing THEN "lower"
                            ELSE IF "upper" \in missing THEN "upper"
                            ELSE "arms",
                   missing |-> missing]

\* computeTrackingHealth(exercise, landmarks, fps); the hint is named by the group
\* it speaks of.
computeTrackingHealth(ex, f, fps) ==
    IF ~f.pose
    THEN [level |-> "lost", fps |-> fps, hint |-> "no_pose", missing |-> {"upper", "lower"}]
    ELSE LET missing == missingGroups(ex, f.vis)
         IN  IF missing = {}
             THEN [level |-> "good", fps |-> fps, hint |-> "good", missing |-> missing]
             ELSE [level |-> IF Cardinality(missing) >= 2 THEN "lost" ELSE "partial",
                   fps |-> fps,
                   hint |-> IF "lower" \in missing THEN "lower"
                            ELSE IF "upper" \in missing THEN "upper"
                            ELSE IF "arms" \in missing THEN "arms"
                            ELSE "generic",
                   missing |-> missing]

\* smoothLandmarks smoothing the visibility along with the coordinates.
smoothLandmarkWithVisibility(p, n) ==
    [n EXCEPT !.x = p.x + (n.x - p.x) \div 4,
              !.y = p.y + (n.y - p.y) \div 4,
              !.z = IF n.zNum /\ p.zNum THEN p.z + (n.z - p.z) \div 4 ELSE n.z,
              !.visibility = p.visibility + (n.visibility - p.visibility) \div 4]

\* One landmark of smoothLandmarks with alpha = 0.25.
smoothLandmark(p, n) ==
    [n EXCEPT !.x = p.x + (n.x - p.x) \div 4,
              !.y = p.y + (n.y - p.y) \div 4,
              !.z = IF n.zNum /\ p.zNum THEN p.z + (n.z - p.z) \div 4 ELSE n.z]

\* smoothLandmarks(prev, next, 0.25).
smoothLandmarks(prev, next) ==
    IF ~prev.set \/ Len(prev.lms) # Len(next)
    THEN [set |-> TRUE, lms |-> next]
    ELSE [set |-> TRUE, lms |-> [i \in 1..Len(next) |-> smoothLandmark(prev.lms[i], next[i])]]

\* What the classifiers read of a video frame.
poseOf(f) == [StandPose EXCEPT !.visUpper = f.vis.upper,
                               !.visLower = Min(f.vis.knee, f.vis.ankle)]

InitPump ==
    /\ exercise \in PumpExercises
    /\ sessionRunning = TRUE
    /\ calibration = EmptyCalibration
    /\ repState = InitialRepState(exercise)
    /\ autoCalib = autoCalibReset(mountAutoCalib, exercise, EmptyCalibration)
    /\ manualCalibOpen = FALSE
    /\ manualCalibStep = 0
    /\ events = << >>
    /\ lastLandmarks = NoLandmarks
    /\ now = 0
    /\ lastOp = "init"
    /\ script = "pump"
    /\ frameLog = << >>
    /\ userOps = 0
    /\ ExtInit

\* performance.now() at a render() call gap ms after the last one.
pumpNow(gap) == Max(now, lastFrameMs) + gap

\* fps of render(): from the time since the last render() call.
pumpFps(nowMs) ==
    LET dt == IF lastFrameMs # 0 THEN nowMs - lastFrameMs ELSE 0
    IN  IF dt > 0 THEN Min(120, Max(0, 1000 \div dt)) ELSE 0

\* render() on a new video frame.
PumpFrame(f, gap) ==
    LET nowMs == pumpNow(gap)
        fps == pumpFps(nowMs)
    IN  /\ script = "pump"
        /\ Len(frameLog) < MaxPumpFrames
        /\ lastFrameMs' = nowMs
        /\ lastVideoTime' = lastVideoTime + 1
        /\ trackingHealth' = computeTrackingHealth(exercise, f, fps)
        /\ IF f.pose
           THEN /\ smoothedRef' = smoothLandmarks(smoothedRef, f.raw)
                /\ renderPose(poseOf(f), nowMs)
           ELSE /\ now' = nowMs
                /\ repState' = noPoseFrame(repState)
                /\ events' = decisionEffect(events, repState, repState')
                /\ lastOp' = "nopose"
                /\ UNCHANGED << smoothedRef, exercise, sessionRunning, calibration, autoCalib,
                                manualCalibOpen, manualCalibStep, lastLandmarks >>
        /\ frameLog' = Append(frameLog, [t |-> nowMs, pose |-> f])
        /\ UNCHANGED << script, userOps, quality, lastRep, session, twin, planVars, barVars >>

\* render() called again before the video has a new frame:
\* videoEl.currentTime === lastVideoTime.
PumpDuplicate(gap) ==
    /\ script = "pump"
    /\ Len(frameLog) < MaxPumpFrames
    /\ lastVideoTime >= 0
    /\ lastFrameMs' = pumpNow(gap)
    /\ lastOp' = "duplicate"
    /\ frameLog' = Append(frameLog, [t |-> pumpNow(gap), pose |-> "duplicate"])
    /\ UNCHANGED << exercise, sessionRunning, calibration, repState, autoCalib,
                    manualCalibOpen, manualCalibStep, events, lastLandmarks, now,
                    script, userOps, quality, lastRep, session, twin, planVars, barVars,
                    trackingHealth, lastVideoTime, smoothedRef >>

NextPump ==
    \/ \E f \in VideoFrames \cup {EmptyFrame}, gap \in PumpGaps : PumpFrame(f, gap)
    \/ \E gap \in PumpGaps : PumpDuplicate(gap)

SpecPump == InitPump /\ [][NextPump]_vars

\* The video frame render() processed last.
videoFrame == frameLog[Len(frameLog)].pose

\* render() has just processed a video frame.
FrameProcessed == script = "pump" /\ lastOp \in {"pose", "nopose"}

\* The level computeTrackingHealth is to return for the frame processed last.
healthLevel ==
    IF ~videoFrame.pose THEN "lost"
    ELSE IF missingGroups(exercise, videoFrame.vis) = {} THEN "good"
    ELSE IF Cardinality(missingGroups(exercise, videoFrame.vis)) = 1 THEN "partial"
    ELSE "lost"

\* C32 as stated: tracking health is good when every group the exercise requires
\* passes confidence, partial when exactly one is missing, lost when there is no
\* pose or at least two are missing; the hint names the lower body when it is
\* missing, else the upper body, else the arms.
C32_HealthLevelAndHint ==
    FrameProcessed =>
        /\ trackingHealth.level = healthLevel
        /\ (videoFrame.pose /\ trackingHealth.level # "good") =>
              trackingHealth.hint =
                  IF "lower" \in missingGroups(exercise, videoFrame.vis) THEN "lower"
                  ELSE IF "upper" \in missingGroups(exercise, videoFrame.vis) THEN "upper"
                  ELSE "arms"

\* C32, amended: the levels as stated; the hint names the lower body when it is
\* missing, else the upper body when it is missing, else the arms when they are
\* missing, and is the general one when only the head is missing.
C32_HealthLevelAndHintWithHead ==
    FrameProcessed =>
        /\ trackingHealth.level = healthLevel
        /\ (videoFrame.pose /\ trackingHealth.level # "good") =>
              trackingHealth.hint =
                  IF "lower" \in missingGroups(exercise, videoFrame.vis) THEN "lower"
                  ELSE IF "upper" \in missingGroups(exercise, videoFrame.vis) THEN "upper"
                  ELSE IF "arms" \in missingGroups(exercise, videoFrame.vis) THEN "arms"
                  ELSE "generic"

\* A jumping-jack frame with only the nose below its threshold: partial, with the
\* general hint.
C32_Witness ==
    /\ FrameProcessed
    /\ exercise = "jumping_jacks"
    /\ videoFrame.pose
    /\ videoFrame.vis.nose < 25
    /\ trackingHealth.missing = {"head"}
    /\ trackingHealth.level = "partial"
    /\ trackingHealth.hint = "generic"

\* C33: a render() call on a frame whose video timestamp equals the last
\* processed one changes nothing: not the exercise state, the smoothed frame,
\* hands-free calibration or any other engine state, nor the frame-time and fps
\* bookkeeping.
C33_DuplicateFrameSkipped ==
    [][(lastOp' = "duplicate" /\ Len(frameLog') # Len(frameLog)) =>
          UNCHANGED << exercise, sessionRunning, calibration, repState, autoCalib, events,
                       lastLandmarks, now, smoothedRef, trackingHealth, lastVideoTime,
                       lastFrameMs >>]_vars

\* This step is render() processing a frame with a pose.
SmoothStep == script = "pump" /\ lastOp' = "pose" /\ Len(frameLog') # Len(frameLog)

\* C35: the smoothed frame is the new frame unchanged when there is no previous
\* smoothed frame or its landmark count differs; otherwise every x and y, and z
\* when both are numeric, is prev + (raw - prev) * 0.25, and every visibility is
\* that of the raw frame.
C35_SmoothingKeepsVisibility ==
    [][SmoothStep =>
          LET raw == videoFrame'.raw
              prev == smoothedRef.lms
              out == smoothedRef'.lms
          IN  IF ~smoothedRef.set \/ Len(prev) # Len(raw)
              THEN out = raw
              ELSE /\ Len(out) = Len(raw)
                   /\ \A i \in 1..Len(raw) :
                         /\ 4 * (out[i].x - prev[i].x) = raw[i].x - prev[i].x
                         /\ 4 * (out[i].y - prev[i].y) = raw[i].y - prev[i].y
                         /\ (raw[i].zNum /\ prev[i].zNum) =>
                               4 * (out[i].z - prev[i].z) = raw[i].z - prev[i].z
                         /\ out[i].visibility = raw[i].visibility]_vars

\* A frame has been smoothed against a previous one that differs from it in
\* position and in visibility.
C35_Witness ==
    /\ script = "pump"
    /\ lastOp = "pose"
    /\ Len(frameLog) >= 2
    /\ Len(smoothedRef.lms) = 1
    /\ smoothedRef.lms[1].x # videoFrame.raw[1].x
    /\ smoothedRef.lms[1].y # videoFrame.raw[1].y
    /\ smoothedRef.lms[1].visibility = videoFrame.raw[1].visibility
    /\ frameLog[Len(frameLog) - 1].t > 0

----------------------------------------------------------------------------
(* Quality aggregate of a session: rep and reject decisions, resets *)

MaxDecisions == 3

AggExercises == {"squats", "jumping_jacks", "burpees"}

AggRoms == {30, 72}

AggTempos == {0, 1, 2000}

RECURSIVE SumOver(_, _)
\* The sum of f over the keys in S.
SumOver(f, S) ==
    IF S = {} THEN 0
    ELSE LET e == CHOOSE x \in S : TRUE IN f[e] + SumOver(f, S \ {e})

\* The decisions the effect has processed in the current session.
decisionsSeen ==
    SumOver(session.repsByExercise, DOMAIN session.repsByExercise) + session.totalRejects

\* useEffect([repState.decisionId]) on a rep decision.
RepDecision(ex, hasRom, romPct, tempoMs) ==
    /\ decisionsSeen < MaxDecisions
    /\ countedRep(ex, hasRom, romPct, tempoMs)

\* useEffect([repState.decisionId]) on a reject decision.
RejectDecision ==
    /\ decisionsSeen < MaxDecisions
    /\ session' = [session EXCEPT !.totalRejects = @ + 1]
    /\ lastOp' = "reject_seen"
    /\ UNCHANGED << engineVars, quality, lastRep, twin, planVars, barVars, pumpVars >>

\* resetFreeSession() from the Reset session button or after a saved free session.
ResetSession ==
    /\ resetFreeSession
    /\ lastOp' = "reset_session"
    /\ UNCHANGED << engineVars, lastRep, twin, planVars, barVars, pumpVars >>

NextAggregate ==
    \/ \E ex \in AggExercises, romPct \in AggRoms, tempoMs \in AggTempos :
          RepDecision(ex, ex # "burpees", romPct, tempoMs)
    \/ RejectDecision
    \/ ResetSession

SpecAggregate == InitQuality /\ [][NextAggregate]_vars

\* The count of one label summed over the per-exercise entries.
labelOverExercises(label) ==
    SumOver([e \in DOMAIN quality.byExercise |-> quality.byExercise[e][label]],
            DOMAIN quality.byExercise)

\* C34: after any sequence of rep and reject decisions, the global clean + ok +
\* sloppy is the number of rep decisions processed since the aggregate was last
\* reset, and each global label count is the sum of that label over the
\* per-exercise entries.
C34_AggregateCountsAgree ==
    /\ quality.clean + quality.ok + quality.sloppy
          = SumOver(session.repsByExercise, DOMAIN session.repsByExercise)
    /\ \A label \in {"clean", "ok", "sloppy"} : quality[label] = labelOverExercises(label)

\* C34 witness: a sloppy rep and a clean rep of two exercises and then a reject
\* have been processed.
C34_Witness ==
    /\ Cardinality(DOMAIN quality.byExercise) = 2
    /\ session.totalRejects = 1
    /\ quality.sloppy = 1
    /\ quality.clean = 1
    /\ lastOp = "reject_seen"

----------------------------------------------------------------------------
(* Phases and decisions: any exercise, running or paused, on a frame sequence *)

MaxPhaseFrames == 4

\* Times between two processed frames: inside and outside every classifier's
\* minimum inter-rep interval, both beyond the phase debounce.
PhaseGaps == {250, 1000}

InitPhases ==
    /\ exercise \in ExerciseId
    /\ sessionRunning = TRUE
    /\ calibration \in {EmptyCalibration, SavedCalibration}
    /\ repState = InitialRepState(exercise)
    /\ autoCalib = autoCalibReset(mountAutoCalib, exercise, calibration)
    /\ manualCalibOpen = FALSE
    /\ manualCalibStep = 0
    /\ events = << >>
    /\ lastLandmarks = NoLandmarks
    /\ now = 0
    /\ lastOp = "init"
    /\ script = "phases"
    /\ frameLog = << >>
    /\ userOps = 0
    /\ ExtInit

\* render() on a frame with a pose.
PhaseFrame(lm, gap) ==
    /\ script = "phases"
    /\ Len(frameLog) < MaxPhaseFrames
    /\ renderPose(lm, now + gap)
    /\ frameLog' = Append(frameLog, [t |-> now + gap, pose |-> TRUE])
    /\ UNCHANGED << script, userOps, extVars >>

\* render() on a frame without a pose.
PhaseNoPose(gap) ==
    /\ script = "phases"
    /\ Len(frameLog) < MaxPhaseFrames
    /\ now' = now + gap
    /\ repState' = noPoseFrame(repState)
    /\ events' = decisionEffect(events, repState, repState')
    /\ lastOp' = "nopose"
    /\ frameLog' = Append(frameLog, [t |-> now + gap, pose |-> FALSE])
    /\ UNCHANGED extVars
    /\ UNCHANGED << exercise, sessionRunning, calibration, autoCalib, manualCalibOpen,
                    manualCalibStep, lastLandmarks, script, userOps >>

NextPhases ==
    \/ \E lm \in FramesFor(exercise), gap \in PhaseGaps : PhaseFrame(lm, gap)
    \/ \E gap \in PhaseGaps : PhaseNoPose(gap)
    \/ TogglePause

SpecPhases == InitPhases /\ [][NextPhases]_vars

\* The message of a reject for insufficient range.
rangeMessages == {"Not deep enough.", "Didn't reach full open position.",
                  "Hit a solid plank position."}

\* C36: for squats, jump squats, jumping jacks and burpees, being in the inner
\* phase (down, or open) implies reachedTarget; so a counting-edge attempt is never
\* rejected for insufficient range, only for being too fast.
C36_InnerPhaseReachedTarget ==
    repState.exercise \in {"squats", "jump_squats", "jumping_jacks", "burpees"} =>
        /\ repState.phase = innerPhase(repState.exercise) => repState.reachedTarget
        /\ repState.decisionKind = "reject" =>
              /\ repState.decisionMessage \notin rangeMessages
              /\ repState.decisionMessage \in {"Too fast. Slow down.",
                                               "Too fast. Control the landing.",
                                               "Too fast. Control the rep."}

\* C36 witness: a squat came up out of the down phase within the minimum
\* inter-rep interval and was rejected as too fast.
C36_Witness ==
    /\ script = "phases"
    /\ repState.exercise = "squats"
    /\ lastOp = "pose"
    /\ repState.phase = "up"
    /\ repState.reachedTarget
    /\ repState.decisionKind = "reject"
    /\ repState.decisionMessage = "Too fast. Slow down."

----------------------------------------------------------------------------
(* Session-tracking version: the frame that produces a decision and the       *)
(* quality the decision effect gives it, with Date.now() read off the frame   *)
(* clock                                                                      *)

MaxTrackedFrames == 4

\* Times between two processed frames: inside and outside every classifier's
\* minimum inter-rep interval, both beyond the phase debounce.
TrackedGaps == {250, 1000}

\* The feedback texts that carry a percentage.
pctFeedback == {"Depth (bottom). Drive up.", "Depth (explode up).", "Depth (go lower).",
                "Depth (start).", "Lunge depth. Go lower.", "Lunge depth. Push up.",
                "Lunge depth.", "Lift. Drive one knee higher.", "Lift. Knee up. Alternate.",
                "Open: legs, arms.", "Aim for: legs, arms."}

\* romPctFromFeedback that reads the jumping-jack average for every exercise.
romPctFromFeedbackAverage(ex, fb) ==
    IF fb.kind \notin pctFeedback THEN [has |-> FALSE, pct |-> 0]
    ELSE [has |-> TRUE, pct |-> (fb.pct + 100) \div 2]

\* romPctFromFeedback(exercise, feedback): null is has = FALSE. The half of an odd
\* jumping-jack sum is dropped; classifyRep compares with whole numbers only.
romPctFromFeedback(ex, fb) ==
    IF fb.kind \notin pctFeedback THEN [has |-> FALSE, pct |-> 0]
    ELSE IF ex = "jumping_jacks" THEN [has |-> TRUE, pct |-> (fb.pct + fb.pct2) \div 2]
    ELSE IF ex \in {"squats", "jump_squats", "lunges", "high_knees"}
         THEN [has |-> TRUE, pct |-> fb.pct]
    ELSE [has |-> FALSE, pct |-> 0]

InitTracked ==
    /\ exercise \in ExerciseId
    /\ sessionRunning = TRUE
    /\ calibration \in {EmptyCalibration, SavedCalibration}
    /\ repState = InitialRepState(exercise)
    /\ autoCalib = autoCalibReset(mountAutoCalib, exercise, calibration)
    /\ manualCalibOpen = FALSE
    /\ manualCalibStep = 0
    /\ events = << >>
    /\ lastLandmarks = NoLandmarks
    /\ now = 0
    /\ lastOp = "init"
    /\ script = "tracked"
    /\ frameLog = << >>
    /\ userOps = 0
    /\ ExtInit

\* useEffect([repState.decisionId]) after a frame took repState from old to new at
\* nowTs: session counters, and for a rep its tempo, ROM%, label and aggregate.
decisionSeen(old, new, nowTs) ==
    IF new.decisionId = old.decisionId \/ new.decisionKind = "none" \/ new.decisionMessage = ""
    THEN UNCHANGED << quality, lastRep, session >>
    ELSE IF new.decisionKind = "rep"
    THEN LET ex == exercise
             tempoMs == IF session.lastCountedRepTs # 0
                        THEN nowTs - session.lastCountedRepTs ELSE 0
             rom == romPctFromFeedback(ex, new.feedback)
             label == classifyRep(ex, rom.has, rom.pct, tempoMs)
         IN  /\ session' = [session EXCEPT !.repsByExercise = countRep(@, ex),
                                          !.lastCountedRepTs = nowTs]
             /\ quality' = addToAgg(quality, ex, label, rom.has, rom.pct)
             /\ lastRep' = [exercise |-> ex, hasRom |-> rom.has, romPct |-> rom.pct,
                            tempoMs |-> tempoMs, label |-> label]
    ELSE /\ session' = [session EXCEPT !.totalRejects = @ + 1]
         /\ UNCHANGED << quality, lastRep >>

\* The frames of the exercise, and for squats and jump squats a stand at and just
\* above the default upEnter of 165 degrees.
TrackedFrames(ex) ==
    FramesFor(ex) \cup (IF ex \in {"squats", "jump_squats"}
                        THEN {squatFrame(165), squatFrame(166)} ELSE {})

\* render() on a frame with a pose, and the decision effect.
TrackedFrame(lm, gap) ==
    /\ script = "tracked"
    /\ Len(frameLog) < MaxTrackedFrames
    /\ renderPose(lm, now + gap)
    /\ decisionSeen(repState, repState', now + gap)
    /\ frameLog' = Append(frameLog, [t |-> now + gap, pose |-> TRUE])
    /\ UNCHANGED << script, userOps, twin, planVars, barVars, pumpVars >>

\* render() on a frame without a pose.
TrackedNoPose(gap) ==
    /\ script = "tracked"
    /\ Len(frameLog) < MaxTrackedFrames
    /\ now' = now + gap
    /\ repState' = noPoseFrame(repState)
    /\ events' = decisionEffect(events, repState, repState')
    /\ lastOp' = "nopose"
    /\ frameLog' = Append(frameLog, [t |-> now + gap, pose |-> FALSE])
    /\ UNCHANGED extVars
    /\ UNCHANGED << exercise, sessionRunning, calibration, autoCalib, manualCalibOpen,
                    manualCalibStep, lastLandmarks, script, userOps >>

NextTracked ==
    \/ \E lm \in TrackedFrames(exercise), gap \in TrackedGaps : TrackedFrame(lm, gap)
    \/ \E gap \in TrackedGaps : TrackedNoPose(gap)

SpecTracked == InitTracked /\ [][NextTracked]_vars

\* This step is a frame that produces a rep decision.
RepDecisionStep ==
    /\ script = "tracked"
    /\ lastOp' = "pose"
    /\ repState'.decisionKind = "rep"
    /\ repState'.decisionId # repState.decisionId

\* C37: for squats and jump squats under the default thresholds, the depth
\* percentage in the feedback of the frame that produces a rep decision is at most
\* 15 (the knee angle on that frame is above 165 degrees), so the ROM% the quality
\* classifier reads is below 50 and the rep is never labelled clean or ok.
C37_DefaultSquatRepIsSloppy ==
    [][(/\ RepDecisionStep
        /\ exercise \in {"squats", "jump_squats"}
        /\ ~calibration[exercise].has)
       => /\ repState'.feedback.pct <= 15
          /\ Min(lastLandmarks'.lKnee, lastLandmarks'.rKnee) > 165
          /\ lastRep'.hasRom
          /\ lastRep'.romPct = repState'.feedback.pct
          /\ lastRep'.romPct < 50
          /\ lastRep'.label \notin {"clean", "ok"}
          /\ quality'.clean = quality.clean
          /\ quality'.ok = quality.ok]_vars

\* C37 witness: a squat rep counted on default thresholds at an unhurried tempo
\* has been labelled sloppy.
C37_Witness ==
    /\ script = "tracked"
    /\ exercise = "squats"
    /\ ~calibration.squats.has
    /\ lastOp = "pose"
    /\ repState.decisionKind = "rep"
    /\ lastRep.exercise = "squats"
    /\ lastRep.tempoMs = 0
    /\ lastRep.hasRom
    /\ lastRep.romPct = 14
    /\ lastRep.label = "sloppy"
    /\ quality.sloppy = 1

\* minRepMs of the classifier of the exercise (session-tracking version).
classifierMinRepMs(ex) ==
    IF ex = "jumping_jacks" THEN 400
    ELSE IF ex = "jump_squats" THEN 520
    ELSE IF ex = "burpees" THEN 950
    ELSE IF ex = "squats" THEN 700
    ELSE IF ex = "lunges" THEN 750
    ELSE 300

\* C38: within one exercise, with no reset and no exercise switch in between, two
\* consecutive rep decisions are more than the classifier's minimum inter-rep
\* interval apart, and that interval is at least the exercise's minimum tempo in
\* classifyRep; so, measured on the frame clock, no such rep is labelled sloppy on
\* tempo grounds.
C38_ConsecutiveRepsNeverTooFast ==
    [][(RepDecisionStep /\ repState.lastRepMs > 0)
       => /\ now' - repState.lastRepMs > classifierMinRepMs(exercise)
          /\ classifierMinRepMs(exercise) >= minTempo(exercise)
          /\ lastRep'.tempoMs = now' - repState.lastRepMs
          /\ ~(lastRep'.tempoMs > 0 /\ lastRep'.tempoMs < minTempo(exercise))
          /\ lastRep'.label = classifyRep(exercise, lastRep'.hasRom, lastRep'.romPct, 0)]_vars

\* C38 witness: a second jumping jack has been counted 500 ms after the first, a
\* tempo between the classifier's 400 ms and classifyRep's 380 ms on one side and
\* the 650 ms of other exercises on the other.
C38_Witness ==
    /\ script = "tracked"
    /\ exercise = "jumping_jacks"
    /\ lastOp = "pose"
    /\ repState.decisionKind = "rep"
    /\ repState.repCount = 2
    /\ lastRep.tempoMs = 500
    /\ session.lastCountedRepTs = now
    /\ quality.clean + quality.ok + quality.sloppy = 2

----------------------------------------------------------------------------
(* Paused session *)

\* This step is render() processing a frame with a pose while the session is
\* paused.
PausedFrameStep ==
    /\ lastOp' = "pose"
    /\ now' # now
    /\ ~sessionRunning

\* C39: while the session is paused, processing any pose frame leaves repCount,
\* phase, reachedTarget, lastSide, lastRepMs, lastPhaseChangeMs and decisionId
\* unchanged and sets decisionKind to none, so no rep or reject is produced.
C39_PausedFrameKeepsCounters ==
    [][PausedFrameStep =>
          /\ repState'.repCount = repState.repCount
          /\ repState'.phase = repState.phase
          /\ repState'.reachedTarget = repState.reachedTarget
          /\ repState'.lastSide = repState.lastSide
          /\ repState'.lastRepMs = repState.lastRepMs
          /\ repState'.lastPhaseChangeMs = repState.lastPhaseChangeMs
          /\ repState'.decisionId = repState.decisionId
          /\ repState'.decisionKind = "none"
          /\ events' = events]_vars

\* C39 witness: a session paused right after a counted rep, in the inner phase or
\* not, has processed a frame: the count and the decision id are those of the rep
\* and the decision kind is none.
C39_Witness ==
    /\ script = "phases"
    /\ ~sessionRunning
    /\ lastOp = "pose"
    /\ repState.repCount = 1
    /\ repState.decisionId >= 1
    /\ repState.lastRepMs > 0
    /\ repState.lastRepMs < now
    /\ repState.decisionKind = "none"
    /\ repState.feedback.kind = "Paused."

----------------------------------------------------------------------------
(* Workout history in localStorage *)

MaxSaves == 3

\* The modes of a saved session.
SessionModes == {"free", "plan", "custom"}

\* The numbers of sessions already stored when the page opens.
StoredLengths == {0, 1, 49, 50}

\* What n saves of free sessions leave in storage: endedAt is the time of the
\* save, counted in saves.
storedAfter(n) == [i \in 1..n |-> [mode |-> "free", endedAt |-> n + 1 - i]]

InitStore ==
    /\ exercise = "jumping_jacks"
    /\ sessionRunning = TRUE
    /\ calibration = EmptyCalibration
    /\ repState = InitialRepState("jumping_jacks")
    /\ autoCalib = autoCalibReset(mountAutoCalib, "jumping_jacks", calibration)
    /\ manualCalibOpen = FALSE
    /\ manualCalibStep = 0
    /\ events = << >>
    /\ lastLandmarks = NoLandmarks
    /\ now = 0
    /\ lastOp = "init"
    /\ script = "store"
    /\ frameLog = << >>
    /\ userOps = 0
    /\ twin = [phase |-> "unknown", lastPhaseChangeMs |-> 0]
    /\ \E n \in StoredLengths : SideInitStored(storedAfter(n))

\* The time of the next save: later than every stored session.
nextEndedAt == IF history = << >> THEN 1 ELSE history[1].endedAt + 1

\* saveSession(mode): appendSession(next) with the default maxSessions.
SaveSession(mode) ==
    /\ script = "store"
    /\ userOps < MaxSaves
    /\ history' = appendSession([mode |-> mode, endedAt |-> nextEndedAt], history,
                                defaultMaxSessions)
    /\ lastOp' = "append_session"
    /\ userOps' = userOps + 1
    /\ UNCHANGED << exercise, sessionRunning, calibration, repState, autoCalib,
                    manualCalibOpen, manualCalibStep, events, lastLandmarks, now, script,
                    frameLog, quality, lastRep, session, twin, planState, planNowMs,
                    stepReps, barVars, pumpVars >>

\* clearSessions().
ClearSessions ==
    /\ script = "store"
    /\ userOps < MaxSaves
    /\ history' = << >>
    /\ lastOp' = "clear_sessions"
    /\ userOps' = userOps + 1
    /\ UNCHANGED << exercise, sessionRunning, calibration, repState, autoCalib,
                    manualCalibOpen, manualCalibStep, events, lastLandmarks, now, script,
                    frameLog, quality, lastRep, session, twin, planState, planNowMs,
                    stepReps, barVars, pumpVars >>

NextStore ==
    \/ \E mode \in SessionModes : SaveSession(mode)
    \/ ClearSessions

SpecStore == InitStore /\ [][NextStore]_vars

\* C40: appendSession stores the new session first, followed by the previously
\* stored sessions in their previous order, truncated to maxSessions (default 50):
\* after any sequence of appends the stored history has at most 50 entries ordered
\* newest first.
C40_HistoryNewestFirstAtMostFifty ==
    [][lastOp' = "append_session" =>
          /\ Len(history') = Min(Len(history) + 1, 50)
          /\ history'[1].endedAt = nextEndedAt
          /\ \A i \in 2..Len(history') : history'[i] = history[i - 1]
          /\ Len(history') <= 50
          /\ \A i \in 1..Len(history') : \A j \in 1..Len(history') :
                i < j => history'[i].endedAt > history'[j].endedAt]_vars

\* C40 witness: a session was appended to a full history: 50 sessions are stored,
\* the new one first, and the oldest has been dropped.
C40_Witness ==
    /\ script = "store"
    /\ lastOp = "append_session"
    /\ Len(history) = 50
    /\ history[1].endedAt = 51
    /\ history[1].mode = "plan"
    /\ history[50].endedAt = 2

====
